---- MODULE Spec2Model ----
(***************************************************************************)
(* Risk Limit Enforcement & Aggregation Engine of bartertown.              *)
(*                                                                         *)
(* The repository holds the engine as a design: the limit formulas, the    *)
(* thresholds and the event playbook are in the Risk Management Framework  *)
(* text carried by internal/cmd/commit.go (lines 238 onward), the control  *)
(* surface in MANAGEMENT_TOOLING_SPEC.md.  The Aggregator's reservation    *)
(* protocol, the Validator pipeline and the Operational State Machine are  *)
(* modelled from the engine specification where the repository has no      *)
(* text for them.                                                          *)
(*                                                                         *)
(* Money is in whole dollars, equity in cents, percentages as integers.    *)
(***************************************************************************)
EXTENDS Integers, FiniteSets, Sequences, TLC

\* ------------------------------------------------------------------------
\* Bounds of the model
\* ------------------------------------------------------------------------
MaxQty == 2

\* ------------------------------------------------------------------------
\* Configuration (risk_framework defaults)
\* ------------------------------------------------------------------------
InitialCapital == 100000
MarginMultiplier == 1
MaxPositionPct == 15
MaxPositionDollars == 25000
MinPositionDollars == 500
StrategyAllocationPct == 40
MinStockPrice == 5
MaxStockPrice == 2000
CurrentPhase == 1
AccountWarningPct == 10
AccountReductionPct == 15
AccountEmergencyPct == 25
StrategyHaltPct == 20
AccountReductionFactorPct == 70
MaxOrdersPerSymbolPerDay == 5
MaxOrdersPerStrategyPerDay == 50
MaxOrdersPerAccountPerDay == 100
MaxPositionsPerStrategy == 10
MaxTotalPositions == 20
ReservationTTL == 1
RecordedPeak == 10234056

Strategies == {"ml-momentum-v2", "heuristic-value-1"}

\* One symbol at the maximum admissible price and one above it.
Symbols == {"AMD", "BRK.A"}

Price == [sym \in Symbols |-> IF sym = "AMD" THEN 2000 ELSE 2500]

\* Account equity values (cents) published to the drawdown recomputation.
\* From the peak 10234056: 7675542 is a drawdown of exactly 25%, 7676565 is
\* 24.99%; 9000000 is 12.06% (soft warning).
AccountEquities == {10234056, 9000000, 7676565, 7675542}

\* The equities published while orders are validated: the peak, a drawdown
\* of 16.9% and the drawdown of exactly 25%.
ValidationEquities == {10234056, 8500000, 7675542}

\* The equity of the drawdown of exactly 25%, alone.
EmergencyEquities == {7675542}

\* Strategy (peak, equity) pairs (cents) published to the strategy drawdown
\* recomputation: 3396000 is a drawdown of exactly 20% from 4245000.
StrategySnapshots == {<<4245000, 4245000>>, <<4245000, 3396001>>, <<4245000, 3396000>>}

\* Multipliers of the Dynamic Adjustment Calculator, in tenths.
Multipliers == {1, 5, 10}

\* What the order history and the rest of the portfolio say when an order
\* arrives: the orders already placed today in the order's symbol, by its
\* strategy and by the account, and the positions held in other symbols by
\* the strategy and by the account.  Each limit is met once, and all of them
\* are missed by one.
NoHistory ==
    [symbolOrders |-> 0, strategyOrders |-> 0, accountOrders |-> 0,
     strategyPositions |-> 0, totalPositions |-> 0]

Histories ==
    {NoHistory,
     [NoHistory EXCEPT !.symbolOrders = 5, !.strategyOrders = 5, !.accountOrders = 5],
     [NoHistory EXCEPT !.strategyOrders = 50, !.accountOrders = 50],
     [NoHistory EXCEPT !.accountOrders = 100],
     [NoHistory EXCEPT !.strategyPositions = 10, !.totalPositions = 10],
     [NoHistory EXCEPT !.totalPositions = 20],
     [symbolOrders |-> 4, strategyOrders |-> 49, accountOrders |-> 99,
      strategyPositions |-> 9, totalPositions |-> 19]}

\* The histories met while the whole engine runs: none, and the symbol's
\* order frequency limit reached.
ValidationHistories ==
    {NoHistory,
     [NoHistory EXCEPT !.symbolOrders = 5, !.strategyOrders = 5, !.accountOrders = 5]}

Keys == Symbols \cup {"ACCOUNT"}

NoOrder == [sym |-> "none", qty |-> 0]
NoReservation == [sym |-> "none", qty |-> 0, ttl |-> 0]
NoResult == [approved |-> FALSE, adjustedSize |-> 0, code |-> "none",
             step |-> "none", mode |-> "none"]

VARIABLES
    accountMode,     \* Normal, SoftWarning, SoftReduced, AccountEmergency
    strategyState,   \* per strategy: Active, Paused, Halted
    peakEquity,      \* highest recorded account equity
    currentEquity,   \* last published account equity
    positions,       \* Aggregator: shares held per strategy and symbol
    reservations,    \* Aggregator: the live reservation of each strategy's order
    lock,            \* Aggregator: holder of each resource key
    pc,              \* Validator: where each strategy's validation stands
    order,           \* Validator: the order under validation
    size,            \* Validator: the size to reserve
    attempts,        \* Validator: reserve attempts made for the order
    avail,           \* Validator: capacity read inside reserve
    result           \* Validator: the ValidationResult returned

engineVars == <<accountMode, strategyState, peakEquity, currentEquity, positions,
                reservations, lock, pc, order, size, attempts, avail, result>>

VARIABLES
    versions,        \* Registry: every LimitSet published, by version number
    active,          \* Registry: the version number of the active LimitSet
    updateResult,    \* UpdateConfig: the error returned to the reload caller
    configOut,       \* GetConfig: the LimitSet returned
    readerPc,        \* current(): where a concurrent reader stands
    readerRef,       \* current(): the version the reader took hold of
    readerView       \* current(): the fields the reader has copied so far

regVars == <<versions, active, updateResult, configOut, readerPc, readerRef, readerView>>

VARIABLES
    allocated        \* capital held in positions and reservations, by strategy

allocVars == <<allocated>>

VARIABLES
    epochQueue,      \* Coordinator: the orders submitted for the symbol, not yet in an epoch
    epochPc,         \* Coordinator: idle, pending (resolution begun), resolved
    epochOrders,     \* Coordinator: the shares each competing strategy wants
    epochPrice,      \* Coordinator: the price of the contended symbol
    epochCapacity,   \* Coordinator: the capacity the symbol has left (dollars)
    epochAllocation  \* Coordinator: the shares each strategy gets

coordVars == <<epochQueue, epochPc, epochOrders, epochPrice, epochCapacity, epochAllocation>>

VARIABLES
    calcSharpe,       \* Calculator input: 30-day Sharpe of the strategy, in hundredths
    calcDrawdown,     \* Calculator input: drawdown of the strategy, in percent
    calcVix,          \* Calculator input: the volatility index
    tierMultiplier,   \* Calculator: performance tier multiplier, in tenths
    regimeMultiplier, \* Calculator: volatility regime multiplier, in tenths
    riskMultiplier    \* Calculator: the combined multiplier, in hundredths

calcVars == <<calcSharpe, calcDrawdown, calcVix, tierMultiplier, regimeMultiplier,
              riskMultiplier>>

VARIABLES
    metricsOut        \* GetPortfolioMetrics: the PortfolioMetrics last returned

VARIABLES
    emitted,          \* the event record the last step emitted, if any
    listener          \* whether an external event listener is configured

auditVars == <<emitted, listener>>

VARIABLES
    commitPc,         \* gt commit: idle, or exited
    commitFlags,      \* gt commit: the flags of the run (commitMessage, commitAll, ...)
    commitArgs,       \* gt commit: the extra arguments of the run
    roleInfo,         \* gt commit: where the run takes place and as whom
    molStatus,        \* gt commit: what gt mol status --json answers
    gitCmd,           \* gt commit: the arguments of the git command executed
    commitOut,        \* gt commit: what the run printed
    commitErr         \* gt commit: the error runCommit returned

commitVars == <<commitPc, commitFlags, commitArgs, roleInfo, molStatus, gitCmd,
                commitOut, commitErr>>

VARIABLES
    gitPc,            \* package git: idle, or returned
    gitCall,          \* package git: the method called and what git did
    gitRet            \* package git: what the method returned

gitVars == <<gitPc, gitCall, gitRet>>

\* The state of the gt commands.
gtVars == <<commitVars, gitVars>>

\* What the engine's order path leaves alone.
otherVars == <<regVars, allocVars, coordVars, calcVars, metricsOut, listener, gtVars>>

\* What the Registry's operations leave alone.
exceptReg == <<engineVars, allocVars, coordVars, calcVars, metricsOut, auditVars, gtVars>>

\* What the allocation of capital to strategies leaves alone.
exceptAlloc == <<engineVars, regVars, coordVars, calcVars, metricsOut, auditVars, gtVars>>

\* What the Coordinator leaves alone.
exceptCoord == <<engineVars, regVars, allocVars, calcVars, metricsOut, auditVars, gtVars>>

\* What the Dynamic Adjustment Calculator leaves alone.
exceptCalc == <<engineVars, regVars, allocVars, coordVars, metricsOut, auditVars, gtVars>>

\* What the gt commands leave alone.
exceptGt == <<engineVars, regVars, allocVars, coordVars, calcVars, metricsOut, auditVars>>

vars == <<engineVars, otherVars, emitted>>

modeVars == <<accountMode, strategyState, peakEquity, currentEquity>>
aggVars == <<positions, reservations, lock>>
valVars == <<pc, order, size, attempts, avail, result>>

Min(a, b) == IF a <= b THEN a ELSE b
Max(a, b) == IF a >= b THEN a ELSE b

RECURSIVE SumOver(_, _)
SumOver(S, f) ==
    IF S = {} THEN 0
    ELSE LET x == CHOOSE y \in S : TRUE IN f[x] + SumOver(S \ {x}, f)

\* ------------------------------------------------------------------------
\* Limit Registry
\* ------------------------------------------------------------------------
PhaseMultiplierPct(phase) ==
    IF phase = 1 THEN 50 ELSE IF phase = 2 THEN 100 ELSE 150

AccountCapital == InitialCapital * MarginMultiplier

MaxPositionSize == Min((AccountCapital * MaxPositionPct) \div 100, MaxPositionDollars)

EffectiveLimit(sym) == (MaxPositionSize * PhaseMultiplierPct(CurrentPhase)) \div 100

MaxStrategyCapital ==
    (((AccountCapital * StrategyAllocationPct) \div 100) * PhaseMultiplierPct(CurrentPhase)) \div 100

\* ------------------------------------------------------------------------
\* Risk Metrics Engine
\* ------------------------------------------------------------------------
\* Variant: the threshold itself does not count.
DrawdownAbove(peak, cur, pct) == (peak - cur) * 100 > pct * peak

\* (peak - cur) / peak >= pct / 100, without division
DrawdownAtLeast(peak, cur, pct) == (peak - cur) * 100 >= pct * peak

\* ------------------------------------------------------------------------
\* Portfolio Aggregator
\* ------------------------------------------------------------------------
PositionValue(s, sym) == positions[s][sym] * Price[sym]

ReservedValue(s, sym) ==
    IF reservations[s].sym = sym THEN reservations[s].qty * Price[sym] ELSE 0

SymbolExposure(sym) ==
    SumOver(Strategies, [s \in Strategies |-> PositionValue(s, sym) + ReservedValue(s, sym)])

StrategyExposure(s) ==
    SumOver(Symbols, [sym \in Symbols |-> PositionValue(s, sym) + ReservedValue(s, sym)])

TotalExposure == SumOver(Symbols, [sym \in Symbols |-> SymbolExposure(sym)])

\* Variant: pending reservations are not counted against the symbol limit.
AvailableCapacityPositionsOnly(s, sym) ==
    Max(0, EffectiveLimit(sym)
           - SumOver(Strategies, [t \in Strategies |-> PositionValue(t, sym)]))

\* Variant: the current exposure is not subtracted from the limit.
AvailableCapacityWholeLimit(s, sym) == EffectiveLimit(sym)

\* Variant: the account's buying power is not looked at.
CapacityLeftOfStrategy(symbolLeft, strategyLeft, accountLeft) ==
    Max(0, Min(symbolLeft, strategyLeft))

\* The room an order has: the least of what its symbol, its strategy and
\* the account have left.
CapacityLeft(symbolLeft, strategyLeft, accountLeft) ==
    Max(0, Min(symbolLeft, Min(strategyLeft, accountLeft)))

\* Per-Order Maximum: what is left of each limit the order draws on.
AvailableCapacity(s, sym) ==
    CapacityLeft(EffectiveLimit(sym) - SymbolExposure(sym),
                 MaxStrategyCapital - StrategyExposure(s),
                 AccountCapital - TotalExposure)

\* ------------------------------------------------------------------------
\* Event records
\* ------------------------------------------------------------------------
NoEvent == [action |-> "none", subject |-> "none", previousMode |-> "none",
            newMode |-> "none"]

\* {action, previousMode, newMode} of an audit event record, and whom it is
\* about: a strategy, or the account.
Event(action, subject, previous, new) ==
    [action |-> action, subject |-> subject, previousMode |-> previous, newMode |-> new]

\* Variant: a record is emitted only when somebody listens.
EmitIfListening(event) == IF listener THEN event ELSE NoEvent

\* Every record is emitted, whether or not a listener is configured.
Emit(event) == event

\* A client connects to the event stream, or leaves it.
StreamConnect ==
    /\ ~listener
    /\ listener' = TRUE
    /\ emitted' = NoEvent
    /\ UNCHANGED <<engineVars, regVars, allocVars, coordVars, calcVars, metricsOut, gtVars>>

StreamDisconnect ==
    /\ listener
    /\ listener' = FALSE
    /\ emitted' = NoEvent
    /\ UNCHANGED <<engineVars, regVars, allocVars, coordVars, calcVars, metricsOut, gtVars>>

\* ------------------------------------------------------------------------
\* Operational State Machine
\* ------------------------------------------------------------------------
AccountModeRank(m) ==
    CASE m = "Normal" -> 0
      [] m = "SoftWarning" -> 1
      [] m = "SoftReduced" -> 2
      [] m = "AccountEmergency" -> 4

\* Restrictiveness of the mode that governs strategy s:
\* Normal < SoftWarning < SoftReduced < StrategyHalted{s} < AccountEmergency
ModeRank(s) ==
    IF accountMode = "AccountEmergency" THEN 4
    ELSE IF strategyState[s] = "Halted" THEN 3
    ELSE AccountModeRank(accountMode)

\* Variant: the account emergency does not gate orders.
ModeForbidsStrategyOnly(s) == strategyState[s] # "Active"

\* Variant: any strategy that is not active gates the orders of all.
ModeForbidsAnyHalt(s) ==
    accountMode = "AccountEmergency" \/ \E t \in Strategies : strategyState[t] # "Active"

\* Step (a) of the Validator: the mode forbids new orders of strategy s.
ModeForbids(s) == accountMode = "AccountEmergency" \/ strategyState[s] # "Active"

\* Account Drawdown Limits: the mode the drawdown asks for.
DrawdownMode(peak, cur) ==
    IF DrawdownAtLeast(peak, cur, AccountEmergencyPct) THEN "AccountEmergency"
    ELSE IF DrawdownAtLeast(peak, cur, AccountReductionPct) THEN "SoftReduced"
    ELSE IF DrawdownAtLeast(peak, cur, AccountWarningPct) THEN "SoftWarning"
    ELSE "Normal"

\* Automatic transitions only go toward the more restrictive mode.
MoreRestrictive(m, n) == IF AccountModeRank(n) > AccountModeRank(m) THEN n ELSE m

\* Variant: the mode follows the metrics in both directions.
RecomputeDrawdownFollowsMetrics(equity) ==
    /\ peakEquity' = Max(peakEquity, equity)
    /\ currentEquity' = equity
    /\ accountMode' = DrawdownMode(Max(peakEquity, equity), equity)
    /\ UNCHANGED <<strategyState, aggVars, valVars>>
    /\ emitted' = IF accountMode # "AccountEmergency"
                     /\ DrawdownMode(Max(peakEquity, equity), equity) = "AccountEmergency"
                  THEN Emit(Event("AccountEmergency", "account", accountMode,
                                  "AccountEmergency"))
                  ELSE NoEvent
    /\ UNCHANGED otherVars

\* Drawdown recomputation on a newly published account equity.
RecomputeDrawdown(equity) ==
    /\ peakEquity' = Max(peakEquity, equity)
    /\ currentEquity' = equity
    /\ accountMode' = MoreRestrictive(accountMode, DrawdownMode(Max(peakEquity, equity), equity))
    /\ UNCHANGED <<strategyState, aggVars, valVars>>
    /\ emitted' = IF accountMode # "AccountEmergency"
                     /\ DrawdownMode(Max(peakEquity, equity), equity) = "AccountEmergency"
                  THEN Emit(Event("AccountEmergency", "account", accountMode,
                                  "AccountEmergency"))
                  ELSE NoEvent
    /\ UNCHANGED otherVars

\* Strategy drawdown recomputation: halt at the halt threshold.
RecomputeStrategyDrawdown(s, snap) ==
    /\ DrawdownAtLeast(snap[1], snap[2], StrategyHaltPct)
    /\ strategyState[s] # "Halted"
    /\ strategyState' = [strategyState EXCEPT ![s] = "Halted"]
    /\ UNCHANGED <<accountMode, peakEquity, currentEquity, aggVars, valVars>>
    /\ emitted' = Emit(Event("StrategyHalted", s, strategyState[s], "Halted"))
    /\ UNCHANGED otherVars

PauseStrategy(s) ==
    /\ strategyState[s] = "Active"
    /\ strategyState' = [strategyState EXCEPT ![s] = "Paused"]
    /\ UNCHANGED <<accountMode, peakEquity, currentEquity, aggVars, valVars>>
    /\ emitted' = Emit(Event("PauseStrategy", s, strategyState[s], "Paused"))
    /\ UNCHANGED otherVars

HaltStrategy(s) ==
    /\ strategyState[s] # "Halted"
    /\ strategyState' = [strategyState EXCEPT ![s] = "Halted"]
    /\ UNCHANGED <<accountMode, peakEquity, currentEquity, aggVars, valVars>>
    /\ emitted' = Emit(Event("HaltStrategy", s, strategyState[s], "Halted"))
    /\ UNCHANGED otherVars

ResumeStrategy(s) ==
    /\ strategyState[s] # "Active"
    /\ strategyState' = [strategyState EXCEPT ![s] = "Active"]
    /\ UNCHANGED <<accountMode, peakEquity, currentEquity, aggVars, valVars>>
    /\ emitted' = Emit(Event("ResumeStrategy", s, strategyState[s], "Active"))
    /\ UNCHANGED otherVars

\* Variant: the emergency liquidates every position.
TriggerEmergencyLiquidating ==
    /\ accountMode # "AccountEmergency"
    /\ accountMode' = "AccountEmergency"
    /\ positions' = [s \in Strategies |-> [sym \in Symbols |-> 0]]
    /\ UNCHANGED <<strategyState, peakEquity, currentEquity, reservations, lock, valVars>>
    /\ emitted' = Emit(Event("TriggerEmergency", "account", accountMode, "AccountEmergency"))
    /\ UNCHANGED otherVars

TriggerEmergency ==
    /\ accountMode # "AccountEmergency"
    /\ accountMode' = "AccountEmergency"
    /\ UNCHANGED <<strategyState, peakEquity, currentEquity, aggVars, valVars>>
    /\ emitted' = Emit(Event("TriggerEmergency", "account", accountMode, "AccountEmergency"))
    /\ UNCHANGED otherVars

\* Variant: the strategies keep the state they had.
StatesKept == strategyState

\* Emergency resume: the account leaves the emergency, no strategy is resumed.
StatesAfterEmergency ==
    [s \in Strategies |-> IF strategyState[s] = "Halted" THEN "Halted" ELSE "Paused"]

ResumeFromEmergency ==
    /\ accountMode = "AccountEmergency"
    /\ accountMode' = "Normal"
    /\ strategyState' = StatesAfterEmergency
    /\ UNCHANGED <<peakEquity, currentEquity, aggVars, valVars>>
    /\ emitted' = Emit(Event("ResumeFromEmergency", "account", accountMode, "Normal"))
    /\ UNCHANGED otherVars

\* ------------------------------------------------------------------------
\* Pre-Trade Validator
\* ------------------------------------------------------------------------
\* The mode that forbids the orders of strategy s, "none" when none does.
ForbiddingMode(s) ==
    IF accountMode = "AccountEmergency" THEN "AccountEmergency"
    ELSE IF strategyState[s] = "Halted" THEN "StrategyHalted"
    ELSE IF strategyState[s] = "Paused" THEN "StrategyPaused"
    ELSE "none"

\* ValidationResult: the decision, its code, the step of the sequence that
\* took it ("f1", "f2": the first and the second reserve attempt) and the
\* mode that drove a mode rejection.
Rejected(code, step, mode) ==
    [approved |-> FALSE, adjustedSize |-> 0, code |-> code, step |-> step, mode |-> mode]

Approved(adjusted, step) ==
    [approved |-> TRUE, adjustedSize |-> adjusted, code |-> "none", step |-> step,
     mode |-> "none"]

ReserveStep(s) == IF attempts[s] = 1 THEN "f1" ELSE "f2"

\* Smallest share count worth min_position_dollars.
MinViableQty(sym) == (MinPositionDollars + Price[sym] - 1) \div Price[sym]

\* The positions strategy s holds among the symbols of the model.
OpenPositions(s) == Cardinality({sym \in Symbols : positions[s][sym] > 0})

\* The order would open a position: 1 when strategy s holds none in sym.
NewPosition(s, sym) == IF positions[s][sym] = 0 THEN 1 ELSE 0

\* Order Frequency Limits: the order would be one too many today.
FrequencyExceeded(h) ==
    \/ h.symbolOrders >= MaxOrdersPerSymbolPerDay
    \/ h.strategyOrders >= MaxOrdersPerStrategyPerDay
    \/ h.accountOrders >= MaxOrdersPerAccountPerDay

\* Strategy Position Count Limit: the order would open one position too many.
PositionCountExceeded(s, sym, h) ==
    \/ h.strategyPositions + OpenPositions(s) + NewPosition(s, sym) > MaxPositionsPerStrategy
    \/ h.totalPositions + SumOver(Strategies, [t \in Strategies |-> OpenPositions(t)])
          + NewPosition(s, sym) > MaxTotalPositions

\* Variant: the order frequency is not among the hard limits checked.
HardLimitViolatedFrequencyUnchecked(s, sym, h) ==
    \/ Price[sym] < MinStockPrice
    \/ Price[sym] > MaxStockPrice
    \/ SymbolExposure(sym) + MinViableQty(sym) * Price[sym] > EffectiveLimit(sym)
    \/ StrategyExposure(s) + MinViableQty(sym) * Price[sym] > MaxStrategyCapital
    \/ TotalExposure + MinViableQty(sym) * Price[sym] > AccountCapital
    \/ PositionCountExceeded(s, sym, h)

\* Step (b): a hard limit is violated even at minimum viable size.
HardLimitViolated(s, sym, h) ==
    \/ Price[sym] < MinStockPrice
    \/ Price[sym] > MaxStockPrice
    \/ SymbolExposure(sym) + MinViableQty(sym) * Price[sym] > EffectiveLimit(sym)
    \/ StrategyExposure(s) + MinViableQty(sym) * Price[sym] > MaxStrategyCapital
    \/ TotalExposure + MinViableQty(sym) * Price[sym] > AccountCapital
    \/ FrequencyExceeded(h)
    \/ PositionCountExceeded(s, sym, h)

\* Step (c): the most restrictive soft-limit factor, in percent.
SoftFactorPct == IF accountMode = "SoftReduced" THEN AccountReductionFactorPct ELSE 100

\* Steps (c) and (d): size after the soft-limit factor and the multiplier.
AdjustedSize(qty, mult) == (qty * SoftFactorPct * mult) \div 1000

\* The decision is made: the ValidationResult is all that is kept.
Decide(s, r) ==
    /\ pc' = [pc EXCEPT ![s] = "done"]
    /\ result' = [result EXCEPT ![s] = r]
    /\ order' = [order EXCEPT ![s] = NoOrder]
    /\ size' = [size EXCEPT ![s] = 0]
    /\ attempts' = [attempts EXCEPT ![s] = 0]

\* ValidateOrder, steps (a) to (e), for an order of strategy s.  A strategy
\* has one order in flight; its reservation handle is the strategy's slot.
ValidateOrder(s, sym, qty, mult, h) ==
    /\ pc[s] = "idle"
    /\ reservations[s] = NoReservation
    /\ IF ModeForbids(s)
       THEN Decide(s, Rejected("InvalidModeForOrder", "a", ForbiddingMode(s)))
       ELSE IF HardLimitViolated(s, sym, h)
       THEN Decide(s, Rejected("HardLimitViolation", "b", "none"))
       ELSE IF AdjustedSize(qty, mult) < MinViableQty(sym)
       THEN Decide(s, Rejected("BelowMinimumSize", "d", "none"))
       ELSE /\ pc' = [pc EXCEPT ![s] = "reserve"]
            /\ order' = [order EXCEPT ![s] = [sym |-> sym, qty |-> qty]]
            /\ size' = [size EXCEPT ![s] = AdjustedSize(qty, mult)]
            /\ UNCHANGED <<result, attempts>>
    /\ UNCHANGED <<avail, modeVars, aggVars>>
    /\ emitted' = IF ~ModeForbids(s) /\ HardLimitViolated(s, sym, h)
                  THEN Emit(Event("HardLimitViolation", s, "none", "none"))
                  ELSE NoEvent
    /\ UNCHANGED otherVars

\* Aggregator.reserve enters its critical section: the symbol key and the
\* account capital key are taken, the capacity is read.
LocksFree(sym) == lock[sym] = "free" /\ lock["ACCOUNT"] = "free"

ReserveBegin(s) ==
    /\ pc[s] = "reserve"
    /\ LocksFree(order[s].sym)
    /\ lock' = [lock EXCEPT ![order[s].sym] = s, !["ACCOUNT"] = s]
    /\ avail' = [avail EXCEPT ![s] = AvailableCapacity(s, order[s].sym)]
    /\ attempts' = [attempts EXCEPT ![s] = attempts[s] + 1]
    /\ pc' = [pc EXCEPT ![s] = "locked"]
    /\ UNCHANGED <<order, size, result, positions, reservations, modeVars>>
    /\ emitted' = NoEvent
    /\ UNCHANGED otherVars

\* The reservation fits the capacity read under the lock.
ReserveFits(s) == size[s] * Price[order[s].sym] <= avail[s]

\* Variant: the mode is not checked again.
RecheckSkipped(s) == FALSE

\* The mode is checked again before the reservation is committed.
RecheckForbids(s) == ModeForbids(s)

\* Variant: the retry asks for the size that has just failed.
SameSize(s) == size[s]

\* Largest size the capacity read allows.
ReducedSize(s) == avail[s] \div Price[order[s].sym]

\* Aggregator.reserve leaves its critical section: the reservation is
\* written, or the attempt fails and is retried once at a reduced size.
ReserveEnd(s) ==
    /\ pc[s] = "locked"
    /\ lock' = [lock EXCEPT ![order[s].sym] = "free", !["ACCOUNT"] = "free"]
    /\ avail' = [avail EXCEPT ![s] = 0]
    /\ IF RecheckForbids(s)
       THEN /\ Decide(s, Rejected("InvalidModeForOrder", ReserveStep(s), ForbiddingMode(s)))
            /\ UNCHANGED reservations
       ELSE IF ReserveFits(s)
       THEN /\ reservations' = [reservations EXCEPT ![s] =
                   [sym |-> order[s].sym, qty |-> size[s], ttl |-> ReservationTTL]]
            /\ Decide(s, Approved(size[s], ReserveStep(s)))
       ELSE IF attempts[s] < 2 /\ ReducedSize(s) >= MinViableQty(order[s].sym)
       THEN /\ pc' = [pc EXCEPT ![s] = "reserve"]
            /\ size' = [size EXCEPT ![s] = ReducedSize(s)]
            /\ UNCHANGED <<reservations, result, order, attempts>>
       ELSE /\ Decide(s, Rejected("InsufficientReservationCapacity", ReserveStep(s), "none"))
            /\ UNCHANGED reservations
    /\ UNCHANGED <<positions, modeVars>>
    /\ emitted' = NoEvent
    /\ UNCHANGED otherVars

\* The caller takes the ValidationResult.
Return(s) ==
    /\ pc[s] = "done"
    /\ pc' = [pc EXCEPT ![s] = "idle"]
    /\ result' = [result EXCEPT ![s] = NoResult]
    /\ UNCHANGED <<order, size, attempts, avail, modeVars, aggVars>>
    /\ emitted' = NoEvent
    /\ UNCHANGED otherVars

\* ------------------------------------------------------------------------
\* Portfolio Aggregator: reservations
\* ------------------------------------------------------------------------
Live(s) == reservations[s] # NoReservation

\* commit(handle, fillDetails): the filled part becomes position.
Commit(s, fill) ==
    /\ Live(s)
    /\ reservations[s].ttl > 0
    /\ fill \in 1..reservations[s].qty
    /\ positions' = [positions EXCEPT ![s][reservations[s].sym] = @ + fill]
    /\ reservations' = [reservations EXCEPT ![s] = NoReservation]
    /\ UNCHANGED <<lock, modeVars, valVars>>
    /\ emitted' = NoEvent
    /\ UNCHANGED otherVars

\* release(handle): the order was cancelled.
Release(s) ==
    /\ Live(s)
    /\ reservations' = [reservations EXCEPT ![s] = NoReservation]
    /\ UNCHANGED <<positions, lock, modeVars, valVars>>
    /\ emitted' = NoEvent
    /\ UNCHANGED otherVars

\* Time passes: the remaining TTL of every live reservation shrinks.
Tick ==
    /\ \E s \in Strategies : Live(s) /\ reservations[s].ttl > 0
    /\ reservations' = [s \in Strategies |->
            IF Live(s) /\ reservations[s].ttl > 0
            THEN [reservations[s] EXCEPT !.ttl = @ - 1]
            ELSE reservations[s]]
    /\ UNCHANGED <<positions, lock, modeVars, valVars>>
    /\ emitted' = NoEvent
    /\ UNCHANGED otherVars

\* Variant: nothing releases a reservation whose TTL has run out.
ExpireNever(s) == FALSE /\ UNCHANGED vars

\* A reservation whose TTL has run out is released automatically.
Expire(s) ==
    /\ Live(s)
    /\ reservations[s].ttl = 0
    /\ reservations' = [reservations EXCEPT ![s] = NoReservation]
    /\ UNCHANGED <<positions, lock, modeVars, valVars>>
    /\ emitted' = NoEvent
    /\ UNCHANGED otherVars

\* ------------------------------------------------------------------------
\* Limit Registry: versions and reload
\* ------------------------------------------------------------------------
\* Most LimitSet versions published in one run.
MaxVersions == 3

\* A LimitSet, through its account drawdown triple
\* <<warning, reduction, emergency>>, in percent.
DefaultLimitSet == <<AccountWarningPct, AccountReductionPct, AccountEmergencyPct>>

\* The LimitSets handed to UpdateConfig: the defaults, a tighter triple, a
\* triple that is not monotonic and a triple with a percentage above 100.
CandidateSets == {DefaultLimitSet, <<5, 12, 20>>, <<15, 10, 25>>, <<10, 15, 101>>}

LimitSetFields == 3

\* Sanity checks of a new configuration.
ValidLimitSet(ls) == ls[1] > 0 /\ ls[1] < ls[2] /\ ls[2] < ls[3] /\ ls[3] <= 100

ActiveLimitSet == versions[active]

\* Variant: the fields of the active LimitSet are overwritten where they are.
swapInPlace(newSet) ==
    /\ versions' = [versions EXCEPT ![active] = newSet]
    /\ active' = active

\* swap(newSet): the new set is a new version, the active version is
\* replaced in one step.
swap(newSet) ==
    /\ versions' = Append(versions, newSet)
    /\ active' = Len(versions) + 1

\* Variant: the new configuration is applied, then validated.
UpdateConfigApplyFirst(newSet) ==
    /\ updateResult = "none"
    /\ Len(versions) < MaxVersions
    /\ swap(newSet)
    /\ updateResult' = IF ValidLimitSet(newSet) THEN "ok" ELSE "ConfigValidationFailure"
    /\ UNCHANGED <<configOut, readerPc, readerRef, readerView, exceptReg>>

\* UpdateConfig(LimitSet): validate, hot-reload if the validation passes.
UpdateConfig(newSet) ==
    /\ updateResult = "none"
    /\ Len(versions) < MaxVersions
    /\ IF ValidLimitSet(newSet)
       THEN /\ swap(newSet)
            /\ updateResult' = "ok"
       ELSE /\ updateResult' = "ConfigValidationFailure"
            /\ UNCHANGED <<versions, active>>
    /\ UNCHANGED <<configOut, readerPc, readerRef, readerView, exceptReg>>

\* The reload caller takes the error (or its absence).
UpdateReturn ==
    /\ updateResult # "none"
    /\ updateResult' = "none"
    /\ UNCHANGED <<versions, active, configOut, readerPc, readerRef, readerView, exceptReg>>

GetConfig ==
    /\ configOut' = ActiveLimitSet
    /\ UNCHANGED <<versions, active, updateResult, readerPc, readerRef, readerView, exceptReg>>

\* current(): a reader takes hold of the active version ...
currentBegin ==
    /\ readerPc = "idle"
    /\ readerRef' = active
    /\ readerView' = <<>>
    /\ readerPc' = "copy"
    /\ UNCHANGED <<versions, active, updateResult, configOut, exceptReg>>

\* ... copies its fields one at a time, while a swap may happen ...
currentCopy ==
    /\ readerPc = "copy"
    /\ readerView' = Append(readerView, versions[readerRef][Len(readerView) + 1])
    /\ readerPc' = IF Len(readerView) + 1 = LimitSetFields THEN "done" ELSE "copy"
    /\ UNCHANGED <<versions, active, updateResult, configOut, readerRef, exceptReg>>

\* ... and returns the LimitSet it copied.
currentReturn ==
    /\ readerPc = "done"
    /\ readerPc' = "idle"
    /\ readerRef' = 0
    /\ readerView' = <<>>
    /\ UNCHANGED <<versions, active, updateResult, configOut, exceptReg>>

\* ------------------------------------------------------------------------
\* Portfolio Aggregator: capital allocated to strategies
\* ------------------------------------------------------------------------
\* Most strategies active at once.
MaxAllocStrategies == 6

AllocStrategies == 1..MaxAllocStrategies

TotalAllocated == SumOver(AllocStrategies, allocated)

\* What a new position of strategy s in a symbol nobody holds is granted.
Granted(s, sym) ==
    CapacityLeft(EffectiveLimit(sym),
                 MaxStrategyCapital - allocated[s],
                 AccountCapital - TotalAllocated)

\* Strategy s opens a position (reservation, then fill) in a fresh symbol,
\* at the largest size the limits leave.
Allocate(s, sym) ==
    /\ Granted(s, sym) >= MinPositionDollars
    /\ allocated' = [allocated EXCEPT ![s] = @ + Granted(s, sym)]
    /\ UNCHANGED exceptAlloc

\* Emergency liquidation: every position of every strategy is closed.
LiquidateAll ==
    /\ TotalAllocated > 0
    /\ allocated' = [s \in AllocStrategies |-> 0]
    /\ UNCHANGED exceptAlloc

\* ------------------------------------------------------------------------
\* Cross-Strategy Coordinator
\* ------------------------------------------------------------------------
\* Most strategies competing for one symbol in an epoch.
MaxCompeting == 3

\* The share counts a strategy may want, the prices of the contended symbol
\* and the capacities it may have left.
DesiredShares == {10, 25, 30}
EpochPrices == {400, 500}
EpochCapacities == {0, 7500, 15000}

RECURSIVE SumSeq(_)
SumSeq(q) == IF q = <<>> THEN 0 ELSE Head(q) + SumSeq(Tail(q))

\* Naive sum: what the strategies want together, in dollars.
TotalDesired(orders, price) == SumSeq(orders) * price

\* Variant: the scaled size is rounded to the nearest share.
ScaledNearest(want, capacity, total) == (2 * want * capacity + total) \div (2 * total)

\* A desired size times the reduction factor capacity / total, in whole shares.
Scaled(want, capacity, total) == (want * capacity) \div total

\* Solution 1 - Proportional Reduction.
ProportionalSplit(orders, price, capacity) ==
    IF TotalDesired(orders, price) <= capacity
    THEN orders
    ELSE [i \in DOMAIN orders |-> Scaled(orders[i], capacity, TotalDesired(orders, price))]

\* Variant: an order that arrives while a resolution is under way joins it.
SubmitOrderInterleaved(want) ==
    /\ Len(epochQueue) + Len(epochOrders) < MaxCompeting
    /\ IF epochPc = "pending"
       THEN /\ epochOrders' = Append(epochOrders, want)
            /\ UNCHANGED epochQueue
       ELSE /\ epochQueue' = Append(epochQueue, want)
            /\ UNCHANGED epochOrders
    /\ UNCHANGED <<epochPc, epochPrice, epochCapacity, epochAllocation, exceptCoord>>

\* A strategy's order for the contended symbol reaches the Coordinator: it
\* waits for the next epoch, whatever the Coordinator is doing.
SubmitOrder(want) ==
    /\ Len(epochQueue) + Len(epochOrders) < MaxCompeting
    /\ epochQueue' = Append(epochQueue, want)
    /\ UNCHANGED <<epochPc, epochOrders, epochPrice, epochCapacity, epochAllocation,
                   exceptCoord>>

\* An epoch's resolution begins, with two or more orders pending: the orders
\* pending at this moment are the epoch's snapshot.
OpenEpoch(price, capacity) ==
    /\ epochPc = "idle"
    /\ Len(epochQueue) >= 2
    /\ epochPc' = "pending"
    /\ epochOrders' = epochQueue
    /\ epochQueue' = <<>>
    /\ epochPrice' = price
    /\ epochCapacity' = capacity
    /\ UNCHANGED <<epochAllocation, exceptCoord>>

ResolveEpoch ==
    /\ epochPc = "pending"
    /\ epochPc' = "resolved"
    /\ epochAllocation' = ProportionalSplit(epochOrders, epochPrice, epochCapacity)
    /\ UNCHANGED <<epochQueue, epochOrders, epochPrice, epochCapacity, exceptCoord>>

CloseEpoch ==
    /\ epochPc = "resolved"
    /\ epochPc' = "idle"
    /\ epochOrders' = <<>>
    /\ epochPrice' = 0
    /\ epochCapacity' = 0
    /\ epochAllocation' = <<>>
    /\ UNCHANGED <<epochQueue, exceptCoord>>

\* ------------------------------------------------------------------------
\* Dynamic Adjustment Calculator
\* ------------------------------------------------------------------------
\* Sharpe ratios (hundredths), drawdowns (percent) and volatility index
\* values published to the calculator: every threshold, and its neighbours.
SharpeValues == {-34, 30, 31, 80, 81, 150, 151, 160}
DrawdownValues == {8, 10, 14, 15, 19, 20}
VixValues == {14, 15, 25, 26, 35, 36}

\* Variant: the tiers are told apart by the Sharpe ratio alone.
PerformanceTierBySharpe(sharpe, drawdown) ==
    IF sharpe > 150 THEN 10
    ELSE IF sharpe > 80 THEN 8
    ELSE IF sharpe > 30 THEN 5
    ELSE 0

\* Strategy Performance Tiers: the allocation multiplier, in tenths.
PerformanceTier(sharpe, drawdown) ==
    IF sharpe > 150 /\ drawdown < 10 THEN 10
    ELSE IF sharpe > 80 /\ drawdown < 15 THEN 8
    ELSE IF sharpe > 30 /\ drawdown < 20 THEN 5
    ELSE 0

\* Volatility Regime Classification: the risk multiplier, in tenths.  The
\* bands are read in the order they are listed.
VolatilityRegime(vix) ==
    IF vix < 15 THEN 12
    ELSE IF vix <= 25 THEN 10
    ELSE IF vix <= 35 THEN 7
    ELSE 4

\* Variant: the combined multiplier has no floor.
ClampAbove(x) == Min(150, x)

\* The combined multiplier is kept within [0.1, 1.5] (hundredths).
Clamp(x) == Max(10, Min(150, x))

\* The multipliers are combined multiplicatively, then clamped.  The market
\* trend bias moves the net-exposure band, not the size, and is no factor.
CombinedMultiplier(sharpe, drawdown, vix) ==
    Clamp(PerformanceTier(sharpe, drawdown) * VolatilityRegime(vix))

\* The daily recomputation of a strategy's multipliers.
RecomputeMultipliers(sharpe, drawdown, vix) ==
    /\ calcSharpe' = sharpe
    /\ calcDrawdown' = drawdown
    /\ calcVix' = vix
    /\ tierMultiplier' = PerformanceTier(sharpe, drawdown)
    /\ regimeMultiplier' = VolatilityRegime(vix)
    /\ riskMultiplier' = CombinedMultiplier(sharpe, drawdown, vix)
    /\ UNCHANGED exceptCalc

\* Base sizes of the orders whose adjustment is followed: the largest order
\* of the other scenarios, and one ten times as large.
BaseSizes == {MaxQty, 10 * MaxQty}

\* The drawdowns and volatility index values published while orders are
\* adjusted: the first tier's and the fourth's, normal and extreme volatility.
AdjustmentDrawdowns == {8, 20}
AdjustmentVix == {20, 36}

\* Step (d) with the calculator at hand: the order is validated at the
\* combined multiplier last published (the validator counts in tenths).
ValidateAdjusted(s, sym, qty, h) ==
    \E mult \in Multipliers :
        /\ mult * 10 = riskMultiplier
        /\ ValidateOrder(s, sym, qty, mult, h)

\* ------------------------------------------------------------------------
\* Portfolio metrics
\* ------------------------------------------------------------------------
GrossExposure ==
    SumOver(Strategies, [s \in Strategies |->
        SumOver(Symbols, [sym \in Symbols |-> PositionValue(s, sym)])])

NumPositions == SumOver(Strategies, [s \in Strategies |-> OpenPositions(s)])

\* Drawdown from peak, in whole percent.
CurrentDrawdown == ((peakEquity - currentEquity) * 100) \div peakEquity

PortfolioMetrics ==
    [totalEquity |-> currentEquity, peakEquity |-> peakEquity,
     currentDrawdown |-> CurrentDrawdown, grossExposure |-> GrossExposure,
     numPositions |-> NumPositions]

NoMetrics ==
    [totalEquity |-> 0, peakEquity |-> 0, currentDrawdown |-> 0, grossExposure |-> 0,
     numPositions |-> 0]

\* Variant: the call also sweeps the reservations whose TTL has run out.
GetPortfolioMetricsSweeping ==
    /\ metricsOut' = PortfolioMetrics
    /\ reservations' = [s \in Strategies |->
            IF Live(s) /\ reservations[s].ttl = 0 THEN NoReservation ELSE reservations[s]]
    /\ UNCHANGED <<modeVars, positions, lock, valVars>>
    /\ UNCHANGED <<regVars, allocVars, coordVars, calcVars, auditVars, gtVars>>

GetPortfolioMetrics ==
    /\ metricsOut' = PortfolioMetrics
    /\ UNCHANGED <<modeVars, positions, reservations, lock, valVars>>
    /\ UNCHANGED <<regVars, allocVars, coordVars, calcVars, auditVars, gtVars>>

\* ------------------------------------------------------------------------
\* gt commit
\* ------------------------------------------------------------------------
\* Longest commit message given with -m, in characters.
MaxMsgLen == 2

\* The characters of a commit message: a letter, and the white space
\* appendTrailers trims.  A text is the sequence of its parts.
Chars == {"x", " ", "\n", "\r", "\t"}

RECURSIVE Texts(_)
Texts(n) ==
    IF n = 0 THEN {<<>>}
    ELSE LET shorter == Texts(n - 1)
         IN shorter \cup {Append(m, ch) : m \in {x \in shorter : Len(x) = n - 1}, ch \in Chars}

\* The flags of a run: -m, -a, --amend, --no-edit, --allow-empty, --dry-run,
\* --no-trailers, --include-mol.
CommitFlagSets ==
    [commitMessage : Texts(MaxMsgLen), commitAll : BOOLEAN, commitAmend : BOOLEAN,
     commitNoEdit : BOOLEAN, commitAllowEmpty : BOOLEAN, commitDryRun : BOOLEAN,
     commitNoTrailers : BOOLEAN, commitIncludeMol : BOOLEAN]

NoFlags ==
    [commitMessage |-> <<>>, commitAll |-> FALSE, commitAmend |-> FALSE,
     commitNoEdit |-> FALSE, commitAllowEmpty |-> FALSE, commitDryRun |-> FALSE,
     commitNoTrailers |-> FALSE, commitIncludeMol |-> TRUE]

\* Extra arguments passed through to git.
ExtraArgs == {<<>>, <<<<"README.md">>>>}

RoleUnknown == "unknown"

\* Where a run takes place: a crew worker and a polecat of rig beads, a human
\* inside the town, and a directory outside any town.
RoleInfos ==
    {[townRoot |-> "/gt", Role |-> "crew", Rig |-> "beads",
      identity |-> "beads/crew/dave"],
     [townRoot |-> "/gt", Role |-> "polecat", Rig |-> "beads",
      identity |-> "beads/polecat/Nux-1766978911613"],
     [townRoot |-> "/gt", Role |-> RoleUnknown, Rig |-> "", identity |-> ""],
     [townRoot |-> "", Role |-> "", Rig |-> "", identity |-> ""]}

NoRoleInfo == [townRoot |-> "", Role |-> "", Rig |-> "", identity |-> ""]

\* MoleculeStatus: the command failed, no molecule, a molecule attached.
MoleculeStatuses ==
    {[err |-> TRUE, HasMolecule |-> FALSE, MoleculeID |-> ""],
     [err |-> FALSE, HasMolecule |-> FALSE, MoleculeID |-> ""],
     [err |-> FALSE, HasMolecule |-> TRUE, MoleculeID |-> "bd-xyz"]}

NoMoleculeStatus == [err |-> TRUE, HasMolecule |-> FALSE, MoleculeID |-> ""]

\* What gitCmd.Run() returns.
GitErrors == {"nil", "exit status 1"}

getPinnedMolecule(status) ==
    IF status.err THEN ""
    ELSE IF status.HasMolecule /\ status.MoleculeID # "" THEN status.MoleculeID
    ELSE ""

\* The trailers of the agent identity, each a text of two parts.
buildAgentTrailers(info, status, includeMol) ==
    IF info.townRoot = "" THEN <<>>
    ELSE IF info.Role = RoleUnknown \/ info.Role = "" THEN <<>>
    ELSE (IF info.identity # "" /\ info.identity # "overseer"
          THEN <<<<"Executed-By: ", info.identity>>>> ELSE <<>>)
         \o (IF info.Rig # "" THEN <<<<"Rig: ", info.Rig>>>> ELSE <<>>)
         \o (IF info.Role # "" THEN <<<<"Role: ", info.Role>>>> ELSE <<>>)
         \o (IF includeMol /\ getPinnedMolecule(status) # ""
             THEN <<<<"Molecule: ", getPinnedMolecule(status)>>>> ELSE <<>>)

\* strings.TrimRight(message, "\n\r\t ")
RECURSIVE TrimRight(_)
TrimRight(message) ==
    IF message = <<>> THEN <<>>
    ELSE IF message[Len(message)] \in {"\n", "\r", "\t", " "}
    THEN TrimRight(SubSeq(message, 1, Len(message) - 1))
    ELSE message

RECURSIVE TrailerLines(_)
TrailerLines(trailers) ==
    IF trailers = <<>> THEN <<>>
    ELSE Head(trailers) \o <<"\n">> \o TrailerLines(Tail(trailers))

\* Variant: the message is taken as it is.
appendTrailersUntrimmed(message, trailers) ==
    message \o <<"\n", "\n">> \o TrailerLines(trailers)

appendTrailers(message, trailers) ==
    TrimRight(message) \o <<"\n", "\n">> \o TrailerLines(trailers)

\* The arguments of git built from the flags.
FlagArgs(flags) ==
    <<<<"commit">>>>
    \o (IF flags.commitAll THEN <<<<"-a">>>> ELSE <<>>)
    \o (IF flags.commitAmend THEN <<<<"--amend">>>> ELSE <<>>)
    \o (IF flags.commitNoEdit THEN <<<<"--no-edit">>>> ELSE <<>>)
    \o (IF flags.commitAllowEmpty THEN <<<<"--allow-empty">>>> ELSE <<>>)
    \o (IF flags.commitDryRun THEN <<<<"--dry-run">>>> ELSE <<>>)

\* Variant: --no-edit does not stand in for a message.
MessageRequiredUnlessAmend(flags) ==
    flags.commitMessage = <<>> /\ ~flags.commitAmend

\* The message check: no message, and neither --amend nor --no-edit.
MessageRequired(flags) ==
    flags.commitMessage = <<>> /\ ~flags.commitAmend /\ ~flags.commitNoEdit

\* Variant: --dry-run is handed to git and nothing else.
ShowOnlyNever(flags) == FALSE

\* With --dry-run the command is shown, not executed.
ShowOnly(flags) == flags.commitDryRun

\* The commit message with the trailers.
MessageWithTrailers(flags, info, status) ==
    IF ~flags.commitNoTrailers /\ flags.commitMessage # <<>>
    THEN LET trailers == buildAgentTrailers(info, status, flags.commitIncludeMol)
         IN IF Len(trailers) > 0 THEN appendTrailers(flags.commitMessage, trailers)
            ELSE flags.commitMessage
    ELSE flags.commitMessage

gitArgs(flags, args, info, status) ==
    LET message == MessageWithTrailers(flags, info, status)
    IN FlagArgs(flags)
       \o (IF message # <<>> THEN <<<<"-m">>, message>> ELSE <<>>)
       \o args

NoCommand == <<>>
NoOutput == [command |-> <<>>, trailers |-> <<>>]

runCommit(flags, args, info, status, gitErr) ==
    /\ commitPc = "idle"
    /\ commitPc' = "exited"
    /\ commitFlags' = flags
    /\ commitArgs' = args
    /\ roleInfo' = info
    /\ molStatus' = status
    /\ IF MessageRequired(flags)
       THEN /\ commitErr' = "commit message required (-m)"
            /\ gitCmd' = NoCommand
            /\ commitOut' = NoOutput
       ELSE IF ShowOnly(flags)
       THEN /\ commitErr' = "nil"
            /\ gitCmd' = NoCommand
            /\ commitOut' =
                  [command |-> gitArgs(flags, args, info, status),
                   trailers |-> IF ~flags.commitNoTrailers
                                THEN buildAgentTrailers(info, status, flags.commitIncludeMol)
                                ELSE <<>>]
       ELSE /\ commitErr' = gitErr
            /\ gitCmd' = gitArgs(flags, args, info, status)
            /\ commitOut' = NoOutput
    /\ UNCHANGED <<exceptGt, gitVars>>

\* The process ends; the next run starts afresh.
commitExit ==
    /\ commitPc = "exited"
    /\ commitPc' = "idle"
    /\ commitFlags' = NoFlags
    /\ commitArgs' = <<>>
    /\ roleInfo' = NoRoleInfo
    /\ molStatus' = NoMoleculeStatus
    /\ gitCmd' = NoCommand
    /\ commitOut' = NoOutput
    /\ commitErr' = "nil"
    /\ UNCHANGED <<exceptGt, gitVars>>

\* ------------------------------------------------------------------------
\* package git: the wrapper of git subprocesses
\* ------------------------------------------------------------------------
\* Most lines of porcelain output in one status.
MaxLines == 2

\* White space as strings.TrimSpace sees it.
Space == {" ", "\n", "\r", "\t"}

RECURSIVE TrimLeft(_)
TrimLeft(text) ==
    IF text = <<>> THEN <<>>
    ELSE IF Head(text) \in Space THEN TrimLeft(Tail(text))
    ELSE text

\* strings.TrimSpace
TrimSpace(text) == TrimLeft(TrimRight(text))

\* strings.Contains: pattern occurs in text as a run of adjacent parts.
Contains(text, pattern) ==
    \E i \in 1..(Len(text) - Len(pattern) + 1) :
        SubSeq(text, i, i + Len(pattern) - 1) = pattern

\* The decimal digits of a natural number, one part each.
RECURSIVE Digits(_)
Digits(n) ==
    LET digit == <<"0", "1", "2", "3", "4", "5", "6", "7", "8", "9">>[(n % 10) + 1]
    IN IF n < 10 THEN <<digit>> ELSE Append(Digits(n \div 10), digit)

\* (*exec.ExitError).Error()
ExitStatus(n) == <<"exit status ">> \o Digits(n)

\* Common errors, and the errors fmt.Errorf makes: an error is told apart by
\* its identity, and says its text.
NilError == [is |-> "nil", text |-> <<>>]
ErrNotARepo == [is |-> "ErrNotARepo", text |-> <<"not a git repository">>]
ErrMergeConflict == [is |-> "ErrMergeConflict", text |-> <<"merge conflict">>]
ErrAuthFailure == [is |-> "ErrAuthFailure", text |-> <<"authentication failed">>]
ErrRebaseConflict == [is |-> "ErrRebaseConflict", text |-> <<"rebase conflict">>]
Errorf(cmd, text) == [is |-> "Errorf", text |-> <<"git ", cmd, ": ">> \o text]

\* Variant: a conflict is looked for before anything else.
wrapErrorConflictFirst(err, stderr, args) ==
    LET trimmed == TrimSpace(stderr)
    IN  IF Contains(trimmed, <<"CONFLICT">>) \/ Contains(trimmed, <<"Merge conflict">>)
        THEN ErrMergeConflict
        ELSE IF Contains(trimmed, <<"not a git repository">>)
        THEN ErrNotARepo
        ELSE IF \/ Contains(trimmed, <<"Authentication failed">>)
                \/ Contains(trimmed, <<"could not read Username">>)
        THEN ErrAuthFailure
        ELSE IF \/ Contains(trimmed, <<"needs merge">>)
                \/ Contains(trimmed, <<"rebase in progress">>)
        THEN ErrRebaseConflict
        ELSE IF trimmed # <<>> THEN Errorf(args[1], trimmed)
        ELSE Errorf(args[1], err)

\* wrapError wraps git errors with context.
wrapError(err, stderr, args) ==
    LET trimmed == TrimSpace(stderr)
    IN  IF Contains(trimmed, <<"not a git repository">>)
        THEN ErrNotARepo
        ELSE IF Contains(trimmed, <<"CONFLICT">>) \/ Contains(trimmed, <<"Merge conflict">>)
        THEN ErrMergeConflict
        ELSE IF \/ Contains(trimmed, <<"Authentication failed">>)
                \/ Contains(trimmed, <<"could not read Username">>)
        THEN ErrAuthFailure
        ELSE IF \/ Contains(trimmed, <<"needs merge">>)
                \/ Contains(trimmed, <<"rebase in progress">>)
        THEN ErrRebaseConflict
        ELSE IF trimmed # <<>> THEN Errorf(args[1], trimmed)
        ELSE Errorf(args[1], err)

\* What one git subprocess does: the error of cmd.Run() (no text: nil), and
\* what it wrote to stdout and to stderr.
Ran(err, stdout, stderr) == [err |-> err, stdout |-> stdout, stderr |-> stderr]

\* run executes a git command and returns stdout.
run(args, ran) ==
    IF ran.err # <<>>
    THEN [out |-> <<>>, err |-> wrapError(ran.err, ran.stderr, args)]
    ELSE [out |-> TrimSpace(ran.stdout), err |-> NilError]

\* The patterns wrapError looks for in stderr.
ErrorPatterns ==
    {"not a git repository", "CONFLICT", "Merge conflict", "Authentication failed",
     "could not read Username", "needs merge", "rebase in progress"}

\* What git writes to stderr when it fails: nothing, an empty line, a
\* message without a pattern, one pattern, two patterns in either order.
StderrTexts ==
    {<<>>, <<"\n">>, <<"fatal: bad revision 'HEAD'", "\n">>}
    \cup {<<"fatal: ", p, "\n">> : p \in ErrorPatterns}
    \cup {<<p, "\n", q, "\n">> : p \in ErrorPatterns, q \in ErrorPatterns}

\* The errors of cmd.Run(): git exits with a status, or cannot be started.
RunErrors ==
    {ExitStatus(1), ExitStatus(2), ExitStatus(128),
     <<"exec: \"git\": executable file not found in $PATH">>}

\* The commands run through Git.run with nothing else around them.
GitCommands == {<<"fetch", "origin">>, <<"merge", "main">>}

\* What git prints for a command that succeeds.
StdoutTexts == {<<>>, <<"main", "\n">>}

\* GitStatus, or nil.
NilStatus ==
    [nil |-> TRUE, Clean |-> FALSE, Modified |-> <<>>, Added |-> <<>>,
     Deleted |-> <<>>, Untracked |-> <<>>]

CleanStatus == [NilStatus EXCEPT !.nil = FALSE, !.Clean = TRUE]

\* No call is under way.
NoCall == [op |-> "none", args |-> <<>>, ran |-> Ran(<<>>, <<>>, <<>>), entries |-> <<>>]
NoReturn == [out |-> <<>>, err |-> NilError, ok |-> FALSE, status |-> NilStatus]

\* A method of Git is called, git does what ran says, the method returns.
Called(op, args, ran, entries, ret) ==
    /\ gitPc = "idle"
    /\ gitPc' = "returned"
    /\ gitCall' = [op |-> op, args |-> args, ran |-> ran, entries |-> entries]
    /\ gitRet' = ret
    /\ UNCHANGED <<exceptGt, commitVars>>

\* Fetch, Merge and the other methods that return what run returns.
Run(args, ran) ==
    Called("run", args, ran, <<>>,
           [NoReturn EXCEPT !.out = run(args, ran).out, !.err = run(args, ran).err])

\* The refs IsAncestor is asked about.
Refs == {"main", "feature", "HEAD", "v1.0"}

\* What git merge-base --is-ancestor does: it answers yes (status 0) or no
\* (status 1), with or without a warning about a ref on stderr; it fails
\* with status 128 and its reason; it is killed, or cannot be started.
AncestorRuns ==
    {Ran(<<>>, <<>>, <<>>),
     Ran(<<>>, <<>>, <<"warning: refname 'main' is ambiguous.", "\n">>),
     Ran(ExitStatus(1), <<>>, <<>>),
     Ran(ExitStatus(1), <<>>, <<"warning: refname 'main' is ambiguous.", "\n">>),
     Ran(ExitStatus(128), <<>>, <<"fatal: Not a valid object name nosuch", "\n">>),
     Ran(ExitStatus(128), <<>>, <<"fatal: ", "not a git repository", "\n">>),
     Ran(<<"signal: killed">>, <<>>, <<>>),
     Ran(<<"exec: \"git\": executable file not found in $PATH">>, <<>>, <<>>)}

\* IsAncestor checks if ancestor is an ancestor of descendant.
IsAncestor(ancestor, descendant, ran) ==
    LET args == <<"merge-base", "--is-ancestor", ancestor, descendant>>
        err == run(args, ran).err
    IN  Called("IsAncestor", args, ran, <<>>,
               IF err # NilError
               THEN IF Contains(err.text, ExitStatus(1))
                    THEN [NoReturn EXCEPT !.ok = FALSE, !.err = NilError]
                    ELSE [NoReturn EXCEPT !.ok = FALSE, !.err = err]
               ELSE [NoReturn EXCEPT !.ok = TRUE, !.err = NilError])

\* The two-character status codes of git status --porcelain: not staged,
\* staged, both, unmerged, untracked.
StatusCodes ==
    {<<" ", "M">>, <<"M", " ">>, <<"A", " ">>, <<"A", "M">>, <<" ", "D">>, <<"D", " ">>,
     <<"?", "?">>, <<"U", "U">>}

\* Paths of the working directory, character by character.
Paths == {<<"a">>, <<"M", "k">>}

\* What git status reports: a code and a path for each file that changed.
StatusEntries == [code : StatusCodes, path : Paths]

RECURSIVE EntryLists(_)
EntryLists(n) ==
    IF n = 0 THEN {<<>>}
    ELSE LET shorter == EntryLists(n - 1)
         IN shorter \cup {Append(es, e) : es \in {x \in shorter : Len(x) = n - 1},
                                          e \in StatusEntries}

\* The porcelain format: XY, a space, the path, a newline.
RECURSIVE Porcelain(_)
Porcelain(entries) ==
    IF entries = <<>> THEN <<>>
    ELSE Head(entries).code \o <<" ">> \o Head(entries).path \o <<"\n">>
         \o Porcelain(Tail(entries))

\* How git status --porcelain can fail.
StatusFailures ==
    {Ran(ExitStatus(128), <<>>, <<"fatal: ", "not a git repository", "\n">>),
     Ran(<<"exec: \"git\": executable file not found in $PATH">>, <<>>, <<>>)}

\* strings.Split(out, "\n")
RECURSIVE Split(_)
Split(text) ==
    IF \E i \in DOMAIN text : text[i] = "\n"
    THEN LET i == CHOOSE i \in DOMAIN text :
                      text[i] = "\n" /\ \A j \in 1..(i - 1) : text[j] # "\n"
         IN <<SubSeq(text, 1, i - 1)>> \o Split(SubSeq(text, i + 1, Len(text)))
    ELSE <<text>>

\* Variant: A is looked for before M.
AddLineAddedFirst(status, line) ==
    LET code == SubSeq(line, 1, 2)
        file == SubSeq(line, 4, Len(line))
    IN  IF Len(line) < 3 THEN status
        ELSE IF Contains(code, <<"A">>) THEN [status EXCEPT !.Added = Append(@, file)]
        ELSE IF Contains(code, <<"M">>) THEN [status EXCEPT !.Modified = Append(@, file)]
        ELSE IF Contains(code, <<"D">>) THEN [status EXCEPT !.Deleted = Append(@, file)]
        ELSE IF Contains(code, <<"?">>) THEN [status EXCEPT !.Untracked = Append(@, file)]
        ELSE status

\* Status, the body of the loop: one line of the output is put in its list.
AddLine(status, line) ==
    LET code == SubSeq(line, 1, 2)
        file == SubSeq(line, 4, Len(line))
    IN  IF Len(line) < 3 THEN status
        ELSE IF Contains(code, <<"M">>) THEN [status EXCEPT !.Modified = Append(@, file)]
        ELSE IF Contains(code, <<"A">>) THEN [status EXCEPT !.Added = Append(@, file)]
        ELSE IF Contains(code, <<"D">>) THEN [status EXCEPT !.Deleted = Append(@, file)]
        ELSE IF Contains(code, <<"?">>) THEN [status EXCEPT !.Untracked = Append(@, file)]
        ELSE status

RECURSIVE AddLines(_, _)
AddLines(status, lines) ==
    IF lines = <<>> THEN status
    ELSE AddLines(AddLine(status, Head(lines)), Tail(lines))

\* Status returns the current git status: (status, err).
StatusOf(ran) ==
    LET ret == run(<<"status", "--porcelain">>, ran)
    IN  IF ret.err # NilError
        THEN [NoReturn EXCEPT !.status = NilStatus, !.err = ret.err]
        ELSE IF ret.out = <<>>
        THEN [NoReturn EXCEPT !.status = CleanStatus]
        ELSE [NoReturn EXCEPT
                !.status = AddLines([CleanStatus EXCEPT !.Clean = FALSE], Split(ret.out))]

Status(entries, ran) ==
    Called("Status", <<"status", "--porcelain">>, ran, entries, StatusOf(ran))

\* HasUncommittedChanges returns true if there are uncommitted changes.
HasUncommittedChanges(entries, ran) ==
    Called("HasUncommittedChanges", <<"status", "--porcelain">>, ran, entries,
           IF StatusOf(ran).err # NilError
           THEN [NoReturn EXCEPT !.ok = FALSE, !.err = StatusOf(ran).err]
           ELSE [NoReturn EXCEPT !.ok = ~StatusOf(ran).status.Clean])

\* The caller takes what the method returned.
gitReturn ==
    /\ gitPc = "returned"
    /\ gitPc' = "idle"
    /\ gitCall' = NoCall
    /\ gitRet' = NoReturn
    /\ UNCHANGED <<exceptGt, commitVars>>

\* ------------------------------------------------------------------------
\* Specification
\* ------------------------------------------------------------------------
Init ==
    /\ accountMode = "Normal"
    /\ strategyState = [s \in Strategies |-> "Active"]
    /\ peakEquity = RecordedPeak
    /\ currentEquity = RecordedPeak
    /\ positions = [s \in Strategies |-> [sym \in Symbols |-> 0]]
    /\ reservations = [s \in Strategies |-> NoReservation]
    /\ lock = [k \in Keys |-> "free"]
    /\ pc = [s \in Strategies |-> "idle"]
    /\ order = [s \in Strategies |-> NoOrder]
    /\ size = [s \in Strategies |-> 0]
    /\ attempts = [s \in Strategies |-> 0]
    /\ avail = [s \in Strategies |-> 0]
    /\ result = [s \in Strategies |-> NoResult]
    /\ versions = <<DefaultLimitSet>>
    /\ active = 1
    /\ updateResult = "none"
    /\ configOut = <<>>
    /\ readerPc = "idle"
    /\ readerRef = 0
    /\ readerView = <<>>
    /\ allocated = [s \in AllocStrategies |-> 0]
    /\ epochQueue = <<>>
    /\ epochPc = "idle"
    /\ epochOrders = <<>>
    /\ epochPrice = 0
    /\ epochCapacity = 0
    /\ epochAllocation = <<>>
    /\ calcSharpe = 160
    /\ calcDrawdown = 8
    /\ calcVix = 20
    /\ tierMultiplier = PerformanceTier(160, 8)
    /\ regimeMultiplier = VolatilityRegime(20)
    /\ riskMultiplier = CombinedMultiplier(160, 8, 20)
    /\ metricsOut = NoMetrics
    /\ emitted = NoEvent
    /\ listener = FALSE
    /\ commitPc = "idle"
    /\ commitFlags = NoFlags
    /\ commitArgs = <<>>
    /\ roleInfo = NoRoleInfo
    /\ molStatus = NoMoleculeStatus
    /\ gitCmd = NoCommand
    /\ commitOut = NoOutput
    /\ commitErr = "nil"
    /\ gitPc = "idle"
    /\ gitCall = NoCall
    /\ gitRet = NoReturn

Next ==
    \/ \E e \in ValidationEquities : RecomputeDrawdown(e)
    \/ \E s \in Strategies, snap \in StrategySnapshots : RecomputeStrategyDrawdown(s, snap)
    \/ \E s \in Strategies : PauseStrategy(s)
    \/ \E s \in Strategies : HaltStrategy(s)
    \/ \E s \in Strategies : ResumeStrategy(s)
    \/ TriggerEmergency
    \/ ResumeFromEmergency
    \/ \E s \in Strategies, sym \in Symbols, qty \in 1..MaxQty, mult \in Multipliers,
          h \in ValidationHistories : ValidateOrder(s, sym, qty, mult, h)
    \/ \E s \in Strategies : ReserveBegin(s)
    \/ \E s \in Strategies : ReserveEnd(s)
    \/ \E s \in Strategies : Return(s)
    \/ \E s \in Strategies, fill \in 1..MaxQty : Commit(s, fill)
    \/ \E s \in Strategies : Release(s)
    \/ Tick
    \/ \E s \in Strategies : Expire(s)

Spec == Init /\ [][Next]_vars

\* The Operational State Machine alone, under every published equity.
NextMode ==
    \/ \E e \in AccountEquities : RecomputeDrawdown(e)
    \/ \E s \in Strategies, snap \in StrategySnapshots : RecomputeStrategyDrawdown(s, snap)
    \/ \E s \in Strategies : PauseStrategy(s)
    \/ \E s \in Strategies : HaltStrategy(s)
    \/ \E s \in Strategies : ResumeStrategy(s)
    \/ TriggerEmergency
    \/ ResumeFromEmergency

ModeSpec == Init /\ [][NextMode]_vars

\* The life of reservations: validation, fills, cancellations, time, and the
\* emergency that rejects validations in flight.
NextReservation ==
    \/ TriggerEmergency
    \/ ResumeFromEmergency
    \/ \E s \in Strategies : ResumeStrategy(s)
    \/ \E s \in Strategies, sym \in Symbols, qty \in 1..MaxQty, mult \in Multipliers,
          h \in ValidationHistories : ValidateOrder(s, sym, qty, mult, h)
    \/ \E s \in Strategies : ReserveBegin(s)
    \/ \E s \in Strategies : ReserveEnd(s)
    \/ \E s \in Strategies : Return(s)
    \/ \E s \in Strategies, fill \in 1..MaxQty : Commit(s, fill)
    \/ \E s \in Strategies : Release(s)
    \/ Tick
    \/ \E s \in Strategies : Expire(s)

ReservationSpec == Init /\ [][NextReservation]_vars

\* TTL timers fire: time passes and expired reservations are swept.
FairSpec ==
    /\ Init
    /\ [][NextReservation]_vars
    /\ WF_vars(Tick)
    /\ \A s \in Strategies : WF_vars(Expire(s))

\* The order path alone (validation, reservation, fills, the account
\* drawdown), under every history.
NextOrderPath ==
    \/ \E e \in ValidationEquities : RecomputeDrawdown(e)
    \/ \E s \in Strategies, sym \in Symbols, qty \in 1..MaxQty, mult \in Multipliers,
          h \in Histories : ValidateOrder(s, sym, qty, mult, h)
    \/ \E s \in Strategies : ReserveBegin(s)
    \/ \E s \in Strategies : ReserveEnd(s)
    \/ \E s \in Strategies : Return(s)
    \/ \E s \in Strategies, fill \in 1..MaxQty : Commit(s, fill)

OrderPathSpec == Init /\ [][NextOrderPath]_vars

\* The order path with its locks granted in turn: a validation waiting for
\* its keys gets them, and a critical section entered is left.
FairOrderPathSpec ==
    /\ Init
    /\ [][NextOrderPath]_vars
    /\ \A s \in Strategies : SF_vars(ReserveBegin(s))
    /\ \A s \in Strategies : WF_vars(ReserveEnd(s))

\* The control actions and the account emergency while orders of the
\* admissible symbol are validated, reserved and filled.
NextControl ==
    \/ \E e \in EmergencyEquities : RecomputeDrawdown(e)
    \/ \E s \in Strategies : HaltStrategy(s)
    \/ \E s \in Strategies : ResumeStrategy(s)
    \/ TriggerEmergency
    \/ ResumeFromEmergency
    \/ \E s \in Strategies, qty \in 1..MaxQty : ValidateOrder(s, "AMD", qty, 10, NoHistory)
    \/ \E s \in Strategies : ReserveBegin(s)
    \/ \E s \in Strategies : ReserveEnd(s)
    \/ \E s \in Strategies : Return(s)
    \/ \E s \in Strategies, fill \in 1..MaxQty : Commit(s, fill)

ControlSpec == Init /\ [][NextControl]_vars

\* The audit stream: every mode transition and the admission of orders up
\* to the reserve call, with and without a client on the event stream.
NextAudit ==
    \/ StreamConnect
    \/ StreamDisconnect
    \/ \E e \in AccountEquities : RecomputeDrawdown(e)
    \/ \E s \in Strategies, snap \in StrategySnapshots : RecomputeStrategyDrawdown(s, snap)
    \/ \E s \in Strategies : PauseStrategy(s)
    \/ \E s \in Strategies : HaltStrategy(s)
    \/ \E s \in Strategies : ResumeStrategy(s)
    \/ TriggerEmergency
    \/ ResumeFromEmergency
    \/ \E s \in Strategies, sym \in Symbols, qty \in 1..MaxQty, h \in Histories :
          ValidateOrder(s, sym, qty, 10, h)
    \/ \E s \in Strategies : Return(s)

AuditSpec == Init /\ [][NextAudit]_vars

\* The portfolio metrics read while orders are filled, reservations expire
\* and the account equity is published.
NextMetrics ==
    \/ GetPortfolioMetrics
    \/ \E e \in ValidationEquities : RecomputeDrawdown(e)
    \/ \E s \in Strategies, sym \in Symbols, qty \in 1..MaxQty, mult \in Multipliers,
          h \in ValidationHistories : ValidateOrder(s, sym, qty, mult, h)
    \/ \E s \in Strategies : ReserveBegin(s)
    \/ \E s \in Strategies : ReserveEnd(s)
    \/ \E s \in Strategies : Return(s)
    \/ \E s \in Strategies, fill \in 1..MaxQty : Commit(s, fill)
    \/ Tick
    \/ \E s \in Strategies : Expire(s)

MetricsSpec == Init /\ [][NextMetrics]_vars

\* The Limit Registry under reloads, with a reader of current() in flight.
NextRegistry ==
    \/ \E newSet \in CandidateSets : UpdateConfig(newSet)
    \/ UpdateReturn
    \/ GetConfig
    \/ currentBegin
    \/ currentCopy
    \/ currentReturn

RegistrySpec == Init /\ [][NextRegistry]_vars

\* The capital of the account shared out among the strategies.
NextAllocation ==
    \/ \E s \in AllocStrategies, sym \in Symbols : Allocate(s, sym)
    \/ LiquidateAll

AllocationSpec == Init /\ [][NextAllocation]_vars

\* The Coordinator, one epoch after the other.
NextCoordinator ==
    \/ \E want \in DesiredShares : SubmitOrder(want)
    \/ \E price \in EpochPrices, capacity \in EpochCapacities : OpenEpoch(price, capacity)
    \/ ResolveEpoch
    \/ CloseEpoch

CoordinatorSpec == Init /\ [][NextCoordinator]_vars

\* The Dynamic Adjustment Calculator under every published metric.
NextCalculator ==
    \E sharpe \in SharpeValues, drawdown \in DrawdownValues, vix \in VixValues :
        RecomputeMultipliers(sharpe, drawdown, vix)

CalculatorSpec == Init /\ [][NextCalculator]_vars

\* The adjustment of order sizes: the multipliers are recomputed while
\* orders of the admissible symbol are validated and reserved.
NextAdjustment ==
    \/ \E sharpe \in SharpeValues, drawdown \in AdjustmentDrawdowns, vix \in AdjustmentVix :
          RecomputeMultipliers(sharpe, drawdown, vix)
    \/ \E s \in Strategies, qty \in BaseSizes : ValidateAdjusted(s, "AMD", qty, NoHistory)
    \/ \E s \in Strategies : ReserveBegin(s)
    \/ \E s \in Strategies : ReserveEnd(s)
    \/ \E s \in Strategies : Return(s)

AdjustmentSpec == Init /\ [][NextAdjustment]_vars

\* Runs of gt commit, one after the other.
NextCommit ==
    \/ /\ commitPc = "idle"
       /\ \E flags \in CommitFlagSets, args \in ExtraArgs, info \in RoleInfos,
             status \in MoleculeStatuses, gitErr \in GitErrors :
             runCommit(flags, args, info, status, gitErr)
    \/ commitExit

CommitSpec == Init /\ [][NextCommit]_vars

\* Git commands that fail and succeed, one call after the other.
NextRun ==
    \/ /\ gitPc = "idle"
       /\ \E args \in GitCommands :
             \/ \E out \in StdoutTexts : Run(args, Ran(<<>>, out, <<>>))
             \/ \E err \in RunErrors, stderr \in StderrTexts : Run(args, Ran(err, <<>>, stderr))
    \/ gitReturn

RunSpec == Init /\ [][NextRun]_vars

\* Ancestry is asked of git, one call after the other.
NextAncestor ==
    \/ /\ gitPc = "idle"
       /\ \E ancestor \in Refs, descendant \in Refs :
             \E ran \in AncestorRuns : IsAncestor(ancestor, descendant, ran)
    \/ gitReturn

AncestorSpec == Init /\ [][NextAncestor]_vars

\* The status of the working directory is asked, one call after the other:
\* git prints the entries, or fails.
NextStatus ==
    \/ /\ gitPc = "idle"
       /\ \/ \E entries \in EntryLists(MaxLines) :
                Status(entries, Ran(<<>>, Porcelain(entries), <<>>))
          \/ \E ran \in StatusFailures : Status(<<>>, ran)
          \/ \E entries \in EntryLists(MaxLines) :
                HasUncommittedChanges(entries, Ran(<<>>, Porcelain(entries), <<>>))
          \/ \E ran \in StatusFailures : HasUncommittedChanges(<<>>, ran)
    \/ gitReturn

StatusSpec == Init /\ [][NextStatus]_vars

\* ------------------------------------------------------------------------
\* Properties
\* ------------------------------------------------------------------------
OrdersAccepted(s) == accountMode # "AccountEmergency" /\ strategyState[s] = "Active"

EntersEmergency == accountMode # "AccountEmergency" /\ accountMode' = "AccountEmergency"

EntersHalt(s) == strategyState[s] # "Halted" /\ strategyState'[s] = "Halted"

Decided(s) == result'[s] # result[s] /\ result'[s] # NoResult

\* C1: in every reachable state, for every symbol, the value of committed
\* positions plus live reservations is at most the symbol's effective limit,
\* whatever the interleaving of reserve, release, commit and TTL expiry.
C1_NoOvercommit == \A sym \in Symbols : SymbolExposure(sym) <= EffectiveLimit(sym)

\* Two reserve calls contend for one symbol and would jointly overcommit it:
\* one is inside the critical section, the other waits for the key.
C1_Witness ==
    \E s, t \in Strategies :
        /\ s # t
        /\ pc[s] = "locked"
        /\ pc[t] = "reserve"
        /\ order[s].sym = order[t].sym
        /\ SymbolExposure(order[s].sym) + (size[s] + size[t]) * Price[order[s].sym]
              > EffectiveLimit(order[s].sym)

\* C2: an approval leaves the symbol's position value within the effective
\* limit, and an order whose requested size would take the position value
\* over the limit is never approved at its requested size.
C2_NoUnadjustedApproval ==
    [][\A s \in Strategies, sym \in Symbols :
          (Decided(s) /\ result'[s].approved /\ order[s].sym = sym) =>
              /\ SymbolExposure(sym)' <= EffectiveLimit(sym)
              /\ (SymbolExposure(sym) + order[s].qty * Price[sym] > EffectiveLimit(sym))
                    => result'[s].adjustedSize < order[s].qty]_vars

\* An order was approved at the second reserve attempt, at a size reduced
\* because the first attempt did not fit, and it now fills the symbol.
C2_Witness ==
    \E s \in Strategies :
        /\ pc[s] = "done"
        /\ result[s].approved
        /\ result[s].step = "f2"
        /\ Live(s)
        /\ SymbolExposure(reservations[s].sym) + Price[reservations[s].sym]
              > EffectiveLimit(reservations[s].sym)

\* C3: the mode that governs a strategy moves to a less restrictive one
\* only in a ResumeStrategy or ResumeFromEmergency step; no recomputation
\* does it, whatever equity is published.
C3_NoAutomaticUpward ==
    [][(\E s \in Strategies : ModeRank(s)' < ModeRank(s))
          => (ResumeFromEmergency \/ \E s \in Strategies : ResumeStrategy(s))]_vars

\* The equity is back at its peak and the mode still is a restricted one
\* that only recomputation sets.
C3_Witness ==
    /\ currentEquity = peakEquity
    /\ accountMode \in {"SoftWarning", "SoftReduced"}

\* C4: while the mode is AccountEmergency every decision of ValidateOrder
\* is a rejection and no reservation comes into being.
C4_EmergencyRejectsAll ==
    [][accountMode = "AccountEmergency" =>
          \A s \in Strategies :
              /\ Decided(s) => ~result'[s].approved
              /\ Live(s)' => Live(s)]_vars

\* An order of an active strategy was rejected because of the emergency.
C4_Witness ==
    \E s \in Strategies :
        /\ accountMode = "AccountEmergency"
        /\ strategyState[s] = "Active"
        /\ pc[s] = "done"
        /\ result[s].code = "InvalidModeForOrder"
        /\ result[s].mode = "AccountEmergency"
        /\ result[s].step = "a"

\* C5: a drawdown recomputation outside the emergency sets AccountEmergency
\* exactly when (peak - equity) / peak >= 25%; from the peak 102,340.56 the
\* equity 76,755.42 (25.0%) sets it and 76,765.65 (24.99%) does not.
C5_EmergencyThreshold ==
    [][\A e \in AccountEquities :
          (RecomputeDrawdown(e) /\ accountMode # "AccountEmergency") =>
              /\ (accountMode' = "AccountEmergency")
                    <=> (4 * (peakEquity' - e) >= peakEquity')
              /\ (peakEquity = 10234056 /\ e = 7675542) => accountMode' = "AccountEmergency"
              /\ (peakEquity = 10234056 /\ e = 7676565) => accountMode' # "AccountEmergency"
       ]_vars

\* The equity stands at exactly 25% below the recorded peak, in emergency.
C5_Witness ==
    /\ peakEquity = 10234056
    /\ currentEquity = 7675542
    /\ accountMode = "AccountEmergency"

\* C6: a validation that stands inside reserve when the mode is
\* AccountEmergency ends rejected without a reservation, and no reservation
\* is created in a state whose mode is AccountEmergency.
C6_RecheckBeforeCommit ==
    [][\A s \in Strategies :
          /\ (pc[s] = "locked" /\ accountMode = "AccountEmergency" /\ pc'[s] # "locked")
                => /\ pc'[s] = "done"
                   /\ result'[s].code = "InvalidModeForOrder"
                   /\ reservations'[s] = NoReservation
          /\ (reservations[s] = NoReservation /\ reservations'[s] # NoReservation)
                => accountMode # "AccountEmergency"]_vars

\* A validation passed step (a) and was rejected at reserve for the
\* emergency set in between.
C6_Witness ==
    \E s \in Strategies :
        /\ pc[s] = "done"
        /\ result[s].code = "InvalidModeForOrder"
        /\ result[s].mode = "AccountEmergency"
        /\ result[s].step \in {"f1", "f2"}

\* C7: every reservation is eventually removed, by commit, release or the
\* expiry of its TTL.
C7_ReservationsEnd == \A s \in Strategies : Live(s) ~> ~Live(s)

\* A reservation outlived its TTL without a fill confirmation.
C7_Witness == \E s \in Strategies : Live(s) /\ reservations[s].ttl = 0

\* C8: a decision on an order of a halted strategy is a mode rejection, and
\* a mode rejection of an order is due to the account emergency or to the
\* state of the order's own strategy.
C8_HaltIsPerStrategy ==
    [][\A s \in Strategies :
          Decided(s) =>
              /\ strategyState[s] = "Halted"
                    => (~result'[s].approved /\ result'[s].code = "InvalidModeForOrder")
              /\ result'[s].code = "InvalidModeForOrder"
                    => (accountMode = "AccountEmergency" \/ strategyState[s] # "Active")]_vars

\* The order of a halted strategy was rejected for the halt while the
\* reservation of another strategy's order is about to be written.
C8_Witness ==
    \E s, t \in Strategies :
        /\ s # t
        /\ strategyState[s] = "Halted"
        /\ pc[s] = "done"
        /\ result[s].mode = "StrategyHalted"
        /\ pc[t] = "locked"
        /\ OrdersAccepted(t)
        /\ size[t] * Price[order[t].sym] <= avail[t]

C11_RejectedReloadKeepsLimitSet ==
    [][/\ (updateResult = "none" /\ updateResult' = "ConfigValidationFailure")
             => (versions' = versions /\ active' = active)
       /\ (configOut' # configOut) => configOut' = ActiveLimitSet
       /\ ValidLimitSet(ActiveLimitSet')]_vars

\* After a successful reload a second one was rejected, and GetConfig
\* answered with the LimitSet of the first.
C11_Witness ==
    /\ updateResult = "ConfigValidationFailure"
    /\ active = 2
    /\ configOut = versions[2]
    /\ configOut # DefaultLimitSet

\* C12: the LimitSet a current() call returns is one whole published
\* version, the one it took hold of, whatever swap happens meanwhile, and no
\* published version ever changes.
C12_NoTornRead ==
    [][/\ \A v \in DOMAIN versions :
             v \in DOMAIN versions' /\ versions'[v] = versions[v]
       /\ readerPc' = "done" => readerView' = versions'[readerRef']]_vars

\* A swap happened while the reader was copying: it holds the whole old set.
C12_Witness ==
    /\ readerPc = "done"
    /\ readerRef # active
    /\ readerView # ActiveLimitSet

\* C13: in every reachable state the capital allocated to the strategies
\* sums to at most the account capital, and each strategy holds at most the
\* per-strategy allocation limit, for more strategies than the account can
\* fund at that limit.
C13_AllocationsWithinCapital ==
    /\ TotalAllocated <= AccountCapital
    /\ \A s \in AllocStrategies : allocated[s] <= MaxStrategyCapital

\* The account capital is used up while a strategy is still below its
\* allocation limit.
C13_Witness ==
    /\ TotalAllocated = AccountCapital
    /\ \E s \in AllocStrategies : allocated[s] < MaxStrategyCapital

\* C14: an order that breaks a hard limit (price bounds, position size,
\* strategy allocation, buying power, order frequency, position count) is
\* never let through to soft-limit adjustment and reservation, whatever its
\* size and multiplier, and a HardLimitViolation rejection comes from the
\* step that took the order in and leaves positions, reservations and the
\* mode as they were.
C14_HardLimitRejects ==
    [][\A s \in Strategies :
          /\ (pc[s] = "idle" /\ pc'[s] = "reserve") =>
             \A sym \in {order'[s].sym}, mult \in Multipliers, h \in Histories :
                ValidateOrder(s, sym, order'[s].qty, mult, h) =>
                   /\ Price[sym] >= 5
                   /\ Price[sym] <= 2000
                   /\ SymbolExposure(sym) + Price[sym] <= 7500
                   /\ StrategyExposure(s) + Price[sym] <= 20000
                   /\ TotalExposure + Price[sym] <= 100000
                   /\ h.symbolOrders < 5
                   /\ h.strategyOrders < 50
                   /\ h.accountOrders < 100
                   /\ h.strategyPositions + OpenPositions(s) + NewPosition(s, sym) <= 10
                   /\ h.totalPositions + OpenPositions("ml-momentum-v2")
                         + OpenPositions("heuristic-value-1") + NewPosition(s, sym) <= 20
          /\ (Decided(s) /\ result'[s].code = "HardLimitViolation")
                => /\ pc[s] = "idle"
                   /\ result'[s].step = "b"
                   /\ ~result'[s].approved
                   /\ positions' = positions
                   /\ reservations' = reservations
                   /\ accountMode' = accountMode
                   /\ strategyState' = strategyState]_vars

\* While another strategy's reservation is live and the account is in
\* SoftReduced, an order was rejected for a hard limit.
C14_Witness ==
    \E s, t \in Strategies :
        /\ s # t
        /\ pc[s] = "done"
        /\ result[s].code = "HardLimitViolation"
        /\ Live(t)
        /\ accountMode = "SoftReduced"
        /\ positions[s]["AMD"] > 0

\* C15: under the proportional split every strategy gets its desired size
\* times capacity / total desired, rounded down to whole shares (its whole
\* desired size when all fits), so the value allocated is at most the
\* capacity; 30 and 25 shares at $400 against $15,000 become 20 and 17.
C15_ProportionalSplit ==
    epochPc = "resolved" =>
        LET total == SumSeq(epochOrders) * epochPrice
        IN  /\ DOMAIN epochAllocation = DOMAIN epochOrders
            /\ SumSeq(epochAllocation) * epochPrice <= epochCapacity
            /\ \A i \in DOMAIN epochOrders :
                  IF total <= epochCapacity
                  THEN epochAllocation[i] = epochOrders[i]
                  ELSE /\ epochAllocation[i] * total <= epochOrders[i] * epochCapacity
                       /\ (epochAllocation[i] + 1) * total > epochOrders[i] * epochCapacity
            /\ (epochOrders = <<30, 25>> /\ epochPrice = 400 /\ epochCapacity = 15000)
                  => epochAllocation = <<20, 17>>

\* The worked example: 30 and 25 shares at $400 against $15,000.
C15_Witness ==
    /\ epochPc = "resolved"
    /\ epochOrders = <<30, 25>>
    /\ epochPrice = 400
    /\ epochCapacity = 15000
    /\ SumSeq(epochAllocation) = 37
    /\ SumSeq(epochAllocation) * epochPrice = 14800

\* C16 (as amended): the performance tier multiplier is 1.0 for Sharpe above
\* 1.5 and drawdown below 10%; otherwise 0.8 for Sharpe above 0.8 and
\* drawdown below 15%; otherwise 0.5 for Sharpe above 0.3 and drawdown below
\* 20%; otherwise 0.0.  Every input is in exactly one tier, and Sharpe 1.6
\* with drawdown 8% gives 1.0.
C16_TierMultiplier ==
    LET tier1 == calcSharpe > 150 /\ calcDrawdown < 10
        tier2 == ~tier1 /\ calcSharpe > 80 /\ calcDrawdown < 15
        tier3 == ~tier1 /\ ~tier2 /\ calcSharpe > 30 /\ calcDrawdown < 20
        tier4 == ~tier1 /\ ~tier2 /\ ~tier3
    IN  /\ tier1 <=> tierMultiplier = 10
        /\ tier2 <=> tierMultiplier = 8
        /\ tier3 <=> tierMultiplier = 5
        /\ tier4 <=> tierMultiplier = 0
        /\ (calcSharpe = 160 /\ calcDrawdown = 8) => tierMultiplier = 10

\* A Sharpe ratio of exactly 1.5 with a drawdown of 8%: the second tier.
C16_Witness ==
    /\ calcSharpe = 150
    /\ calcDrawdown = 8
    /\ tierMultiplier = 8

\* C16 as stated: the tiers begin at Sharpe >= 1.5, >= 0.8 and >= 0.3.
C16_TierMultiplierAtLeast ==
    LET tier1 == calcSharpe >= 150 /\ calcDrawdown < 10
        tier2 == ~tier1 /\ calcSharpe >= 80 /\ calcDrawdown < 15
        tier3 == ~tier1 /\ ~tier2 /\ calcSharpe >= 30 /\ calcDrawdown < 20
        tier4 == ~tier1 /\ ~tier2 /\ ~tier3
    IN  /\ tier1 <=> tierMultiplier = 10
        /\ tier2 <=> tierMultiplier = 8
        /\ tier3 <=> tierMultiplier = 5
        /\ tier4 <=> tierMultiplier = 0
        /\ (calcSharpe = 160 /\ calcDrawdown = 8) => tierMultiplier = 10

\* C20: the combined multiplier is the product of the performance tier and
\* volatility regime multipliers, brought into [0.1, 1.5]; it lies in that
\* range for all inputs and is determined by the inputs of the last
\* recomputation alone.
C20_MultiplierClamped ==
    LET product ==
            (CASE calcSharpe > 150 /\ calcDrawdown < 10 -> 10
               [] calcSharpe > 80 /\ calcDrawdown < 15
                    /\ ~(calcSharpe > 150 /\ calcDrawdown < 10) -> 8
               [] calcSharpe > 30 /\ calcDrawdown < 20
                    /\ ~(calcSharpe > 80 /\ calcDrawdown < 15) -> 5
               [] OTHER -> 0)
            * (CASE calcVix < 15 -> 12
                 [] calcVix >= 15 /\ calcVix <= 25 -> 10
                 [] calcVix > 25 /\ calcVix <= 35 -> 7
                 [] OTHER -> 4)
    IN  /\ riskMultiplier >= 10
        /\ riskMultiplier <= 150
        /\ (product >= 10 /\ product <= 150) => riskMultiplier = product
        /\ product < 10 => riskMultiplier = 10
        /\ product > 150 => riskMultiplier = 150

\* The product of the multipliers is below the range (a strategy of the
\* fourth tier in extreme volatility) and the combined multiplier is 0.1.
C20_Witness ==
    /\ tierMultiplier = 0
    /\ regimeMultiplier = 4
    /\ riskMultiplier = 10

C18_EventsEmitted ==
    [][/\ EntersEmergency =>
             /\ emitted'.action \in {"TriggerEmergency", "AccountEmergency"}
             /\ emitted'.subject = "account"
             /\ emitted'.previousMode = accountMode
             /\ emitted'.newMode = accountMode'
       /\ (accountMode = "AccountEmergency" /\ accountMode' # "AccountEmergency") =>
             /\ emitted'.action = "ResumeFromEmergency"
             /\ emitted'.subject = "account"
             /\ emitted'.previousMode = accountMode
             /\ emitted'.newMode = accountMode'
       /\ \A s \in Strategies :
             (strategyState'[s] # strategyState[s] /\ accountMode' = accountMode) =>
                 /\ emitted'.action \in
                       (CASE strategyState'[s] = "Paused" -> {"PauseStrategy"}
                          [] strategyState'[s] = "Active" -> {"ResumeStrategy"}
                          [] strategyState'[s] = "Halted" -> {"HaltStrategy", "StrategyHalted"})
                 /\ emitted'.subject = s
                 /\ emitted'.previousMode = strategyState[s]
                 /\ emitted'.newMode = strategyState'[s]
       /\ \A s \in Strategies :
             (Decided(s) /\ result'[s].code = "HardLimitViolation") =>
                 /\ emitted'.action = "HardLimitViolation"
                 /\ emitted'.subject = s]_vars

\* With no listener on the stream and the hard-limit rejection of an order
\* not yet taken by its caller, TriggerEmergency of an account in
\* SoftReduced has emitted its record.
C18_Witness ==
    /\ ~listener
    /\ emitted = Event("TriggerEmergency", "account", "SoftReduced", "AccountEmergency")
    /\ \E s \in Strategies : pc[s] = "done" /\ result[s].code = "HardLimitViolation"

\* The run takes place in an agent context: inside a town, in a known role.
InAgentContext == roleInfo.townRoot # "" /\ roleInfo.Role \notin {RoleUnknown, ""}

\* The text given to git with -m, if any.
MessageArg ==
    IF \E i \in 1..(Len(gitCmd) - 1) : gitCmd[i] = <<"-m">>
    THEN gitCmd[(CHOOSE i \in 1..(Len(gitCmd) - 1) : gitCmd[i] = <<"-m">>) + 1]
    ELSE <<>>

\* The trailer lines of the agent of the run.
IdentityLines ==
    <<"Executed-By: ", roleInfo.identity, "\n", "Rig: ", roleInfo.Rig, "\n",
      "Role: ", roleInfo.Role, "\n">>
    \o (IF ~molStatus.err /\ molStatus.HasMolecule
        THEN <<"Molecule: ", molStatus.MoleculeID, "\n">> ELSE <<>>)

EndsWith(text, tail) ==
    /\ Len(text) >= Len(tail)
    /\ SubSeq(text, Len(text) - Len(tail) + 1, Len(text)) = tail

\* C19: when git commit was executed in an agent context without
\* --no-trailers (and with --include-mol as it is by default), the message
\* given to git ends with the Executed-By, Rig and Role trailers, and with
\* the Molecule trailer when a molecule is attached, whatever -a, --amend,
\* --no-edit and --allow-empty are; with --no-trailers the message given
\* with -m is the message given to git.
C19_TrailersOnEveryCommit ==
    (commitPc = "exited" /\ gitCmd # NoCommand) =>
        /\ (/\ InAgentContext
            /\ ~commitFlags.commitNoTrailers
            /\ commitFlags.commitIncludeMol)
              => EndsWith(MessageArg, IdentityLines)
        /\ (commitFlags.commitNoTrailers /\ commitFlags.commitMessage # <<>>)
              => MessageArg = commitFlags.commitMessage

\* C21: an order of a strategy in the lowest performance tier (multiplier
\* 0.0) leaves the adjustment step with a size of 0 and does not go on to
\* be reserved, so it is never approved at a positive size.
C21_LowestTierSizeZero ==
    [][\A s \in Strategies :
          (tierMultiplier = 0 /\ pc[s] = "idle" /\ pc'[s] # "idle")
              => (size'[s] = 0 /\ pc'[s] = "done" /\ ~result'[s].approved)]_vars

\* C22: the Coordinator resolves the orders that were pending when the
\* resolution began, all of them and no other: the epoch's orders are the
\* whole queue of that moment, no order joins them before the epoch ends,
\* an order submitted meanwhile waits in the queue for the next epoch, and
\* the resolution gives every order of the epoch its allocation.
C22_EpochSnapshot ==
    [][/\ (epochPc = "idle" /\ epochPc' = "pending")
              => (epochOrders' = epochQueue /\ epochQueue' = <<>>)
       /\ (epochPc # "idle" /\ epochPc' # "idle") => epochOrders' = epochOrders
       /\ (epochPc # "idle" /\ epochQueue' # epochQueue)
              => /\ Len(epochQueue') = Len(epochQueue) + 1
                 /\ SubSeq(epochQueue', 1, Len(epochQueue)) = epochQueue
       /\ (epochPc = "pending" /\ epochPc' = "resolved")
              => /\ DOMAIN epochAllocation' = DOMAIN epochOrders
                 /\ epochQueue' = epochQueue]_vars

\* Two orders were resolved in an epoch while a third, submitted after the
\* resolution had begun, waits for the next one.
C22_Witness ==
    /\ epochPc = "resolved"
    /\ Len(epochOrders) = 2
    /\ Len(epochAllocation) = 2
    /\ Len(epochQueue) = 1

\* C23: one ValidateOrder call attempts Aggregator.reserve at most twice.
\* The second attempt follows a first that failed for capacity, at a
\* reduced size that is still viable; a failure for capacity that is not
\* retried, and every other rejection, ends the validation with its code
\* and the engine does not take the order up again; every validation that
\* reaches reserve ends with a decision.
C23_ReserveAtMostTwice ==
    /\ [](\A s \in Strategies : attempts[s] <= 2)
    /\ [][\A s \in Strategies :
            /\ (pc[s] = "locked" /\ pc'[s] = "reserve")
                  => /\ attempts[s] = 1
                     /\ ~ReserveFits(s)
                     /\ size'[s] < size[s]
                     /\ size'[s] >= MinViableQty(order[s].sym)
                     /\ attempts'[s] = 1
            /\ (pc[s] = "locked" /\ pc'[s] = "done"
                  /\ result'[s].code = "InsufficientReservationCapacity")
                  => \/ attempts[s] = 2
                     \/ ReducedSize(s) < MinViableQty(order[s].sym)
            /\ (pc[s] # "done" /\ pc'[s] = "done" /\ ~result'[s].approved
                  /\ result'[s].code # "InsufficientReservationCapacity")
                  => pc[s] \in {"idle", "locked"}
            /\ pc[s] = "done" => pc'[s] \in {"done", "idle"}]_vars
    /\ \A s \in Strategies : (pc[s] \in {"reserve", "locked"}) ~> (pc[s] = "done")

\* A validation is rejected for capacity at its second reserve attempt.
C23_Witness ==
    \E s \in Strategies :
        /\ pc[s] = "done"
        /\ result[s].code = "InsufficientReservationCapacity"
        /\ result[s].step = "f2"

\* C24: a run without -m, --amend and --no-edit returns the error "commit
\* message required (-m)", executes no git command and prints nothing,
\* whatever its other flags are; a run with a message, --amend or --no-edit
\* passes the check: it does not return that error, and it goes on to
\* execute git or, with --dry-run, to print the command.
C24_MessageRequired ==
    commitPc = "exited" =>
        IF /\ commitFlags.commitMessage = <<>>
           /\ ~commitFlags.commitAmend
           /\ ~commitFlags.commitNoEdit
        THEN /\ commitErr = "commit message required (-m)"
             /\ gitCmd = NoCommand
             /\ commitOut = NoOutput
        ELSE /\ commitErr # "commit message required (-m)"
             /\ IF commitFlags.commitDryRun
                THEN commitOut.command # <<>> /\ gitCmd = NoCommand
                ELSE gitCmd # NoCommand

\* A run with -a, --allow-empty and extra arguments, and no message, ended
\* with the error.
C24_Witness ==
    /\ commitPc = "exited"
    /\ commitFlags.commitMessage = <<>>
    /\ commitFlags.commitAll
    /\ commitFlags.commitAllowEmpty
    /\ commitArgs # <<>>
    /\ commitErr = "commit message required (-m)"
    /\ gitCmd = NoCommand

\* C25: a run with --dry-run executes no git command.  Once past the
\* message check it returns nil and has printed the git command (commit,
\* the flags with --dry-run among them, the message, the extra arguments)
\* and, unless --no-trailers is set, the trailers of the agent.
C25_DryRunExecutesNothing ==
    (commitPc = "exited" /\ commitFlags.commitDryRun) =>
        /\ gitCmd = NoCommand
        /\ commitErr # "commit message required (-m)" =>
              /\ commitErr = "nil"
              /\ Head(commitOut.command) = <<"commit">>
              /\ \E i \in DOMAIN commitOut.command : commitOut.command[i] = <<"--dry-run">>
              /\ commitFlags.commitMessage # <<>> =>
                    \E i \in DOMAIN commitOut.command : commitOut.command[i] = <<"-m">>
              /\ SubSeq(commitOut.command, Len(commitOut.command) - Len(commitArgs) + 1,
                        Len(commitOut.command)) = commitArgs
              /\ commitFlags.commitNoTrailers => commitOut.trailers = <<>>
              /\ (InAgentContext /\ ~commitFlags.commitNoTrailers)
                    => Len(commitOut.trailers) >= 3

\* A dry run of an agent with a message: the command and four trailers
\* (a molecule is attached) were printed, git was not executed.
C25_Witness ==
    /\ commitPc = "exited"
    /\ commitFlags.commitDryRun
    /\ commitFlags.commitMessage # <<>>
    /\ gitCmd = NoCommand
    /\ commitOut.command # <<>>
    /\ Len(commitOut.trailers) = 4

\* The trailers of the run, one line each, in the order Executed-By, Rig,
\* Role, Molecule.
ExpectedTrailerLines ==
    <<"Executed-By: ", roleInfo.identity, "\n", "Rig: ", roleInfo.Rig, "\n",
      "Role: ", roleInfo.Role, "\n">>
    \o (IF commitFlags.commitIncludeMol /\ ~molStatus.err /\ molStatus.HasMolecule
        THEN <<"Molecule: ", molStatus.MoleculeID, "\n">> ELSE <<>>)

WhiteSpace == {"\n", "\r", "\t", " "}

\* C26: the message appendTrailers returns is the message given without
\* its trailing white space (newline, carriage return, tab, space) and
\* otherwise unchanged, then two newlines (the end of the last line and one
\* blank line), then every trailer in order, each ended by a newline.
C26_AppendTrailers ==
    (/\ commitPc = "exited"
     /\ gitCmd # NoCommand
     /\ InAgentContext
     /\ ~commitFlags.commitNoTrailers
     /\ commitFlags.commitMessage # <<>>) =>
        LET message == commitFlags.commitMessage
            out == MessageArg
        IN \E k \in 0..Len(message) :
              /\ \A i \in (k + 1)..Len(message) : message[i] \in WhiteSpace
              /\ k > 0 => message[k] \notin WhiteSpace
              /\ Len(out) = k + 2 + Len(ExpectedTrailerLines)
              /\ SubSeq(out, 1, k) = SubSeq(message, 1, k)
              /\ out[k + 1] = "\n"
              /\ out[k + 2] = "\n"
              /\ SubSeq(out, k + 3, Len(out)) = ExpectedTrailerLines

\* A message that ends in a tab or a carriage return got its trailers.
C26_Witness ==
    /\ commitPc = "exited"
    /\ gitCmd # NoCommand
    /\ InAgentContext
    /\ ~commitFlags.commitNoTrailers
    /\ commitFlags.commitMessage \in {<<"x", "\t">>, <<"x", "\r">>}
    /\ Len(MessageArg) = 3 + Len(ExpectedTrailerLines)
    /\ MessageArg[1] = "x"
    /\ MessageArg[2] = "\n"

\* C27: a git command that fails gives empty output and an error that is
\* not nil, chosen by the first pattern found in stderr in the order: "not a
\* git repository" (ErrNotARepo); "CONFLICT" or "Merge conflict"
\* (ErrMergeConflict); "Authentication failed" or "could not read Username"
\* (ErrAuthFailure); "needs merge" or "rebase in progress"
\* (ErrRebaseConflict); with none of them, an error that says stderr's
\* text, or the error of the subprocess when stderr is empty.
C27_WrappedErrors ==
    (gitPc = "returned" /\ gitCall.op = "run" /\ gitCall.ran.err # <<>>) =>
        LET stderr == gitCall.ran.stderr
            has(p) == \E i \in DOMAIN stderr : stderr[i] = p
            said == SelectSeq(stderr, LAMBDA part : part # "\n")
        IN  /\ gitRet.out = <<>>
            /\ gitRet.err # NilError
            /\ gitRet.err.is =
                 (CASE has("not a git repository") -> "ErrNotARepo"
                    [] ~has("not a git repository")
                         /\ (has("CONFLICT") \/ has("Merge conflict")) -> "ErrMergeConflict"
                    [] ~has("not a git repository") /\ ~has("CONFLICT")
                         /\ ~has("Merge conflict")
                         /\ (has("Authentication failed") \/ has("could not read Username"))
                         -> "ErrAuthFailure"
                    [] ~has("not a git repository") /\ ~has("CONFLICT")
                         /\ ~has("Merge conflict") /\ ~has("Authentication failed")
                         /\ ~has("could not read Username")
                         /\ (has("needs merge") \/ has("rebase in progress"))
                         -> "ErrRebaseConflict"
                    [] OTHER -> "Errorf")
            /\ gitRet.err.is = "Errorf" =>
                 /\ SubSeq(gitRet.err.text, 1, 3) = <<"git ", gitCall.args[1], ": ">>
                 /\ IF said # <<>>
                    THEN SelectSeq(SubSeq(gitRet.err.text, 4, Len(gitRet.err.text)),
                                   LAMBDA part : part # "\n") = said
                    ELSE SubSeq(gitRet.err.text, 4, Len(gitRet.err.text)) = gitCall.ran.err

\* A failed merge whose stderr names a rebase in progress before a
\* conflict: the conflict is the error.
C27_Witness ==
    /\ gitPc = "returned"
    /\ gitCall.op = "run"
    /\ gitCall.ran.err = ExitStatus(1)
    /\ gitCall.ran.stderr = <<"rebase in progress", "\n", "CONFLICT", "\n">>
    /\ gitRet.err = ErrMergeConflict

\* C28: IsAncestor returns (true, nil) when git succeeds, (false, nil) when
\* git exits with status 1, and (false, err) with err not nil for every
\* other failure.
C28_IsAncestor ==
    (gitPc = "returned" /\ gitCall.op = "IsAncestor") =>
        IF gitCall.ran.err = <<>>
        THEN gitRet.ok /\ gitRet.err = NilError
        ELSE IF gitCall.ran.err = ExitStatus(1)
        THEN ~gitRet.ok /\ gitRet.err = NilError
        ELSE ~gitRet.ok /\ gitRet.err # NilError

\* The list a status code belongs to: the first of M, A, D, ? it contains.
ListOf(code) ==
    LET has(letter) == code[1] = letter \/ code[2] = letter
    IN  IF has("M") THEN "Modified"
        ELSE IF has("A") THEN "Added"
        ELSE IF has("D") THEN "Deleted"
        ELSE IF has("?") THEN "Untracked"
        ELSE "none"

\* How many of the entries git printed belong to a list.
CountOf(list) ==
    Cardinality({i \in DOMAIN gitCall.entries : ListOf(gitCall.entries[i].code) = list})

\* C29: Status returns Clean with four empty lists when git prints nothing,
\* and only then; otherwise Clean is false and every line is in at most one
\* list, the list of the first of M, A, D, ? its code contains;
\* HasUncommittedChanges returns the negation of Clean, and (false, err)
\* when Status fails.
C29_StatusLists ==
    /\ (gitPc = "returned" /\ gitCall.op = "Status") =>
          IF gitCall.ran.err # <<>>
          THEN gitRet.status.nil /\ gitRet.err # NilError
          ELSE LET status == gitRet.status
               IN  /\ ~status.nil
                   /\ gitRet.err = NilError
                   /\ status.Clean <=> gitCall.entries = <<>>
                   /\ status.Clean =>
                        /\ status.Modified = <<>>
                        /\ status.Added = <<>>
                        /\ status.Deleted = <<>>
                        /\ status.Untracked = <<>>
                   /\ Len(status.Modified) = CountOf("Modified")
                   /\ Len(status.Added) = CountOf("Added")
                   /\ Len(status.Deleted) = CountOf("Deleted")
                   /\ Len(status.Untracked) = CountOf("Untracked")
    /\ (gitPc = "returned" /\ gitCall.op = "HasUncommittedChanges") =>
          IF gitCall.ran.err # <<>>
          THEN ~gitRet.ok /\ gitRet.err # NilError
          ELSE /\ gitRet.err = NilError
               /\ gitRet.ok <=> gitCall.entries # <<>>

\* A file added and then modified, and an unmerged file: one entry in
\* Modified, none in any other list, and the status is not clean.
C29_Witness ==
    /\ gitPc = "returned"
    /\ gitCall.op = "Status"
    /\ Len(gitCall.entries) = 2
    /\ gitCall.entries[1].code = <<"A", "M">>
    /\ gitCall.entries[2].code = <<"U", "U">>
    /\ ~gitRet.status.Clean
    /\ Len(gitRet.status.Modified) = 1
    /\ gitRet.status.Added = <<>>

\* The paths git printed for the entries of a list, in order.
PathsOf(list) ==
    LET RECURSIVE Pick(_)
        Pick(entries) ==
            IF entries = <<>> THEN <<>>
            ELSE (IF ListOf(Head(entries).code) = list THEN <<Head(entries).path>> ELSE <<>>)
                 \o Pick(Tail(entries))
    IN Pick(gitCall.entries)

\* C30: the file names Status reports in Modified, Added, Deleted and
\* Untracked are the paths git printed, character by character, also when
\* the code of the first line begins with a space.
C30_FileNamesExact ==
    (gitPc = "returned" /\ gitCall.op = "Status" /\ gitCall.ran.err = <<>>) =>
        /\ gitRet.status.Modified = PathsOf("Modified")
        /\ gitRet.status.Added = PathsOf("Added")
        /\ gitRet.status.Deleted = PathsOf("Deleted")
        /\ gitRet.status.Untracked = PathsOf("Untracked")

====
